---- MODULE Spec2Model ----
(***************************************************************************)
(* The decision-analysis pipeline of boundary-mcp: analyzeAndReframe,      *)
(* analyzeVariables, generateStrategies, analyzeRisk, analyzeBias and      *)
(* analyzeDecision, which chains them.                                     *)
(*                                                                         *)
(* JavaScript strings are sequences of UTF-16 code units.  A string is     *)
(* written here as the hexadecimal text of its code units, four digits     *)
(* each: "焦虑" is "71268651", "AI" is "00410049", the empty string is "".  *)
(* Every table below carries the source text in a comment.  Positions are  *)
(* counted in code units from 0, as in JavaScript.                         *)
(***************************************************************************)
EXTENDS Integers, Sequences, FiniteSets, TLC

VARIABLES
  pc,         \* "idle": no request in progress; "returned": a call has returned
  call,       \* the call in progress: the function called and its arguments
  ret,        \* what the call returned
  lastIndex,  \* the lastIndex of every RegExp object that lives at module level
  earlier     \* a call remembered from earlier, with what it returned

vars == <<pc, call, ret, lastIndex, earlier>>

\* ------------------------------------------------------------------ strings

\* s.length
Length(s) == Len(s) \div 4

\* s.slice(i, j) for 0 <= i <= j <= s.length
Slice(s, i, j) == SubSeq(s, 4 * i + 1, 4 * j)

\* s.startsWith(p, i)
StartsWith(s, p, i) ==
  /\ i + Length(p) <= Length(s)
  /\ Slice(s, i, i + Length(p)) = p

\* s.includes(k)
StringIncludes(s, k) == \E i \in 0..(Length(s) - Length(k)) : StartsWith(s, k, i)

\* array.includes(x)
ArrayIncludes(a, x) == \E i \in 1..Len(a) : a[i] = x

\* array.join(sep)
RECURSIVE Join(_, _)
Join(a, sep) ==
  IF Len(a) = 0 THEN ""
  ELSE IF Len(a) = 1 THEN a[1]
  ELSE a[1] \o sep \o Join(Tail(a), sep)

Max(S) == CHOOSE x \in S : \A y \in S : y <= x
Min(S) == CHOOSE x \in S : \A y \in S : x <= y

\* `const v = value; return Rest(v)`: value is computed once, then Rest of it.
Bind(value, Rest(_)) == CHOOSE r \in {Rest(v) : v \in {value}} : TRUE

\* ---------------------------------------------------------------- regexps
\* A regexp of the sources is an alternation of alternatives, each a chain of
\* literals separated by ".*", with the flags g and i:
\*   [alts |-> <<alternative, ...>>, global |-> BOOLEAN, ignoreCase |-> BOOLEAN]

\* The code units "." does not match.
LineTerminators == {"000a", "000d", "2028", "2029"}

\* Canonicalize of a code unit under the i flag: toUpperCase for a-z.
UpperCase ==
  [c \in {"0061", "0062", "0063", "0064", "0065", "0066", "0067", "0068", "0069",
          "006a", "006b", "006c", "006d", "006e", "006f", "0070", "0071", "0072",
          "0073", "0074", "0075", "0076", "0077", "0078", "0079", "007a"} |->
     CASE c = "0061" -> "0041" [] c = "0062" -> "0042" [] c = "0063" -> "0043"
       [] c = "0064" -> "0044" [] c = "0065" -> "0045" [] c = "0066" -> "0046"
       [] c = "0067" -> "0047" [] c = "0068" -> "0048" [] c = "0069" -> "0049"
       [] c = "006a" -> "004a" [] c = "006b" -> "004b" [] c = "006c" -> "004c"
       [] c = "006d" -> "004d" [] c = "006e" -> "004e" [] c = "006f" -> "004f"
       [] c = "0070" -> "0050" [] c = "0071" -> "0051" [] c = "0072" -> "0052"
       [] c = "0073" -> "0053" [] c = "0074" -> "0054" [] c = "0075" -> "0055"
       [] c = "0076" -> "0056" [] c = "0077" -> "0057" [] c = "0078" -> "0058"
       [] c = "0079" -> "0059" [] c = "007a" -> "005a"]

\* The code units of s from position i on, each canonicalized.
RECURSIVE Canonicalize(_, _)
Canonicalize(s, i) ==
  IF i >= Length(s) THEN ""
  ELSE Bind(Slice(s, i, i + 1), LAMBDA c :
         (IF c \in DOMAIN UpperCase THEN UpperCase[c] ELSE c) \o Canonicalize(s, i + 1))

\* The literal lit matches s at position i.
LiteralAt(re, s, lit, i) ==
  /\ i + Length(lit) <= Length(s)
  /\ IF re.ignoreCase
     THEN Canonicalize(Slice(s, i, i + Length(lit)), 0) = Canonicalize(lit, 0)
     ELSE Slice(s, i, i + Length(lit)) = lit

\* The farthest position ".*" can reach from pos: the next line terminator or
\* the end of s.
LineEnd(s, pos) ==
  Bind({k \in pos..(Length(s) - 1) : Slice(s, k, k + 1) \in LineTerminators},
       LAMBDA T : IF T = {} THEN Length(s) ELSE Min(T))

\* The end of the match of ".* alt[k] .* alt[k+1] ..." from pos, -1 if there is
\* none.  ".*" is greedy: it takes the farthest start of alt[k] from which the
\* rest still matches.
RECURSIVE RestEnd(_, _, _, _, _)
RestEnd(re, alt, k, s, pos) ==
  IF k > Len(alt) THEN pos
  ELSE Bind({j \in pos..LineEnd(s, pos) :
               /\ LiteralAt(re, s, alt[k], j)
               /\ RestEnd(re, alt, k + 1, s, j + Length(alt[k])) # -1},
            LAMBDA starts :
              IF starts = {} THEN -1
              ELSE RestEnd(re, alt, k + 1, s, Max(starts) + Length(alt[k])))

\* The end of the match of alternative alt at position i, -1 if there is none.
AlternativeEnd(re, alt, s, i) ==
  IF LiteralAt(re, s, alt[1], i)
  THEN RestEnd(re, alt, 2, s, i + Length(alt[1]))
  ELSE -1

\* The end of the match of re at position i, -1 if re does not match there: the
\* first alternative that matches decides.
MatchEnd(re, s, i) ==
  Bind({a \in 1..Len(re.alts) : AlternativeEnd(re, re.alts[a], s, i) # -1},
       LAMBDA hits :
         IF hits = {} THEN -1 ELSE AlternativeEnd(re, re.alts[Min(hits)], s, i))

NoMatch == [index |-> -1, end |-> -1]

\* The leftmost match of re in s at or after position from.
Exec(re, s, from) ==
  Bind({i \in from..Length(s) : MatchEnd(re, s, i) # -1},
       LAMBDA at :
         IF at = {} THEN NoMatch
         ELSE Bind(Min(at), LAMBDA i : [index |-> i, end |-> MatchEnd(re, s, i)]))

\* re.test(s) with re.lastIndex = li: whether it matched, and the lastIndex it
\* leaves.  Only a global regexp reads and writes lastIndex.
RegExpTest(re, s, li) ==
  IF re.global
  THEN Bind(IF li > Length(s) THEN NoMatch ELSE Exec(re, s, li),
            LAMBDA m : [found |-> m.index # -1,
                        lastIndex |-> IF m.index # -1 THEN m.end ELSE 0])
  ELSE [found |-> \E i \in 0..Length(s) : MatchEnd(re, s, i) # -1, lastIndex |-> li]

\* The matched substrings of re in s from position from on, left to right,
\* each search starting where the last match ended (no literal is empty, so a
\* match is never empty).
RECURSIVE AllMatches(_, _, _)
AllMatches(re, s, from) ==
  Bind(Exec(re, s, from),
       LAMBDA m : IF m.index = -1 THEN <<>>
                  ELSE <<Slice(s, m.index, m.end)>> \o AllMatches(re, s, m.end))

\* s.match(re) with re.lastIndex = li: the array returned (<<>> stands for
\* null) and the lastIndex it leaves.  With the g flag match starts from 0
\* whatever lastIndex was, collects every match and leaves lastIndex 0; without
\* it, it returns the first match and leaves lastIndex alone.
StringMatch(s, re, li) ==
  IF re.global
  THEN [matches |-> AllMatches(re, s, 0), lastIndex |-> 0]
  ELSE Bind(Exec(re, s, 0),
            LAMBDA m : [matches |-> IF m.index = -1 THEN <<>>
                                    ELSE <<Slice(s, m.index, m.end)>>,
                        lastIndex |-> li])

\* ------------------------------------------------------------------- tables

\* reframe.ts:8-21, the emotional-wording patterns (all carry the g flag)
EMOTIONAL_PATTERNS ==
  <<
    [pattern |-> [alts |-> <<<<"71268651">>, <<"62c55fc3">>, <<"5bb36015">>, <<"605060e7">>, <<"7d275f20">>>>, global |-> TRUE, ignoreCase |-> FALSE],
     type |-> "7126865160c57eea"],  \* /焦虑|担心|害怕|恐惧|紧张/g  焦虑情绪
    [pattern |-> [alts |-> <<<<"61246012">>, <<"751f6c14">>, <<"6c146124">>, <<"4e0d723d">>, <<"70e6">>>>, global |-> TRUE, ignoreCase |-> FALSE],
     type |-> "6124601260c57eea"],  \* /愤怒|生气|气愤|不爽|烦/g  愤怒情绪
    [pattern |-> [alts |-> <<<<"7edd671b">>, <<"65e0671b">>, <<"6ca15e0c671b">>, <<"5b8c86cb">>>>, global |-> TRUE, ignoreCase |-> FALSE],
     type |-> "7edd671b60c57eea"],  \* /绝望|无望|没希望|完蛋/g  绝望情绪
    [pattern |-> [alts |-> <<<<"5174594b">>, <<"6fc052a8">>, <<"592a68d24e86">>, <<"0061006d0061007a0069006e0067">>>>, global |-> TRUE, ignoreCase |-> TRUE],
     type |-> "8fc75ea65174594b"],  \* /兴奋|激动|太棒了|amazing/gi  过度兴奋
    [pattern |-> [alts |-> <<<<"5fc5987b">>, <<"4e005b9a8981">>, <<"53ea80fd">>, <<"4e0d5f974e0d">>>>, global |-> TRUE, ignoreCase |-> FALSE],
     type |-> "5f3a8feb602788688fbe"],  \* /必须|一定要|只能|不得不/g  强迫性表达
    [pattern |-> [alts |-> <<<<"80af5b9a4f1a">>, <<"7edd5bf94f1a">>, <<"4e005b9a4f1a">>, <<"5fc57136">>>>, global |-> TRUE, ignoreCase |-> FALSE],
     type |-> "8fc75ea6786e5b9a"],  \* /肯定会|绝对会|一定会|必然/g  过度确定
    [pattern |-> [alts |-> <<<<"518d4e0d", "5c31", "67654e0d53ca">>, <<"95198fc7", "673a4f1a">>, <<"6700540e", "673a4f1a">>>>, global |-> TRUE, ignoreCase |-> FALSE],
     type |-> "7d278feb611f50478bbe"],  \* /再不.*就.*来不及|错过.*机会|最后.*机会/g  紧迫感假设
    [pattern |-> [alts |-> <<<<"522b4eba90fd">>, <<"59275bb690fd">>, <<"5f88591a4eba90fd">>, <<"8eab8fb9", "90fd">>>>, global |-> TRUE, ignoreCase |-> FALSE],
     type |-> "7fa44f53538b529b"],  \* /别人都|大家都|很多人都|身边.*都/g  群体压力
    [pattern |-> [alts |-> <<<<"5377">>, <<"51855377">>, <<"592a5377">>, <<"53776b7b">>>>, global |-> TRUE, ignoreCase |-> FALSE],
     type |-> "7ade4e8971268651"],  \* /卷|内卷|太卷|卷死/g  竞争焦虑
    [pattern |-> [alts |-> <<<<"6da6">>, <<"8dd18def">>, <<"900379bb">>, <<"9003">>>>, global |-> TRUE, ignoreCase |-> FALSE],
     type |-> "9003907f602788688fbe"],  \* /润|跑路|逃离|逃/g  逃避性表达
    [pattern |-> [alts |-> <<<<"5e9f4e86">>, <<"5b8c4e86">>, <<"51c94e86">>, <<"6ca1620f">>>>, global |-> TRUE, ignoreCase |-> FALSE],
     type |-> "707e96be5316601d7ef4"],  \* /废了|完了|凉了|没戏/g  灾难化思维
    [pattern |-> [alts |-> <<<<"662f4e0d662f8be5">>, <<"89814e0d8981">>, <<"8be54e0d8be5">>>>, global |-> TRUE, ignoreCase |-> FALSE],
     type |-> "51b37b5671268651"]  \* /是不是该|要不要|该不该/g  决策焦虑
  >>

\* reframe.ts:24-29, the preset-stance patterns
STANCE_PATTERNS ==
  <<
    [pattern |-> [alts |-> <<<<"621189c95f97", "5e948be5">>>>, global |-> TRUE, ignoreCase |-> FALSE],
     type |-> "98848bbe7ed38bba"],  \* /我觉得.*应该/g  预设结论
    [pattern |-> [alts |-> <<<<"660e663e", "66f4597d">>>>, global |-> TRUE, ignoreCase |-> FALSE],
     type |-> "98848bbe504f597d"],  \* /明显.*更好/g  预设偏好
    [pattern |-> [alts |-> <<<<"50bb5b50624d">>>>, global |-> TRUE, ignoreCase |-> FALSE],
     type |-> "8d2c4f4e90099879"],  \* /傻子才/g  贬低选项
    [pattern |-> [alts |-> <<<<"8c014e0d60f3">>>>, global |-> TRUE, ignoreCase |-> FALSE],
     type |-> "50478bbe666e904d6027"]  \* /谁不想/g  假设普遍性
  >>

\* reframe.ts:61-83, the five topic tests of extractCoreThemes in source order;
\* each regex literal is evaluated anew per call and has no flag
THEME_TESTS ==
  <<
    [pattern |-> [alts |-> <<<<"5de54f5c">>, <<"804c4e1a">>, <<"8f6c884c">>, <<"8df369fd">>, <<"006f0066006600650072">>, <<"516c53f8">>>>, global |-> FALSE, ignoreCase |-> FALSE],
     theme |-> "804c4e1a53d15c55"],  \* /工作|职业|转行|跳槽|offer|公司/  职业发展
    [pattern |-> [alts |-> <<<<"51fa56fd">>, <<"79fb6c11">>, <<"6da6">>, <<"56fd5916">>, <<"6d775916">>, <<"75595b66">>>>, global |-> FALSE, ignoreCase |-> FALSE],
     theme |-> "573074068fc179fb"],  \* /出国|移民|润|国外|海外|留学/  地理迁移
    [pattern |-> [alts |-> <<<<"8bfb4e66">>, <<"5b664e60">>, <<"80037814">>, <<"8003535a">>, <<"5b665386">>, <<"6df19020">>>>, global |-> FALSE, ignoreCase |-> FALSE],
     theme |-> "655980b262958d44"],  \* /读书|学习|考研|考博|学历|深造/  教育投资
    [pattern |-> [alts |-> <<<<"62958d44">>, <<"74068d22">>, <<"4e70623f">>, <<"80a17968">>, <<"521b4e1a">>, <<"8d5a94b1">>>>, global |-> FALSE, ignoreCase |-> FALSE],
     theme |-> "8d2252a151b37b56"],  \* /投资|理财|买房|股票|创业|赚钱/  财务决策
    [pattern |-> [alts |-> <<<<"7ed35a5a">>, <<"79bb5a5a">>, <<"5206624b">>, <<"604b7231">>, <<"5bb65ead">>, <<"5b695b50">>>>, global |-> FALSE, ignoreCase |-> FALSE],
     theme |-> "4eba751f51737cfb"]  \* /结婚|离婚|分手|恋爱|家庭|孩子/  人生关系
  >>

\* reframe.ts:85, the theme used when no topic test matches: 人生决策
DEFAULT_THEME == "4eba751f51b37b56"

\* reframe.ts:95-102, templates: the text before ${themeStr}, whether the template
\* substitutes themeStr, and the text after it
TEMPLATES ==
  <<
    [key |-> "804c4e1a53d15c55",
     pre |-> "57285f53524d4e2a4eba67614ef6ff08628080fd30017ecf9a8c30018d446e90ff09548c5e02573a73af58834e0bff0c4e0d540c",
     hasTheme |-> TRUE,
     post |-> "8def5f847684957f671f653676ca4e0e98ce96697ed36784662f4ec04e48ff1f"],  \* 职业发展
    [key |-> "573074068fc179fb",
     pre |-> "57287ed95b9a4e2a4eba80cc666f300176ee6807548c7ea6675f67614ef64e0bff0c",
     hasTheme |-> TRUE,
     post |-> "76f86bd473b072b67684957f671f4ef7503c4e0e6210672c7ed36784662f4ec04e48ff1f"],  \* 地理迁移
    [key |-> "655980b262958d44",
     pre |-> "57285f53524d96366bb58fdb884c",
     hasTheme |-> TRUE,
     post |-> "ff0c5176629551654ea751fa6bd4548c673a4f1a6210672c7ed36784662f4ec04e48ff1f"],  \* 教育投资
    [key |-> "8d2252a151b37b56",
     pre |-> "",
     hasTheme |-> TRUE,
     post |-> "57284e0d540c60c5666f4e0b768498ce9669653676ca52065e03548c4e2a4eba627f53d780fd529b5339914d5ea659824f55ff1f"],  \* 财务决策
    [key |-> "4eba751f51737cfb",
     pre |-> "",
     hasTheme |-> TRUE,
     post |-> "51b37b566d8953ca54ea4e9b5173952e53d891cf30017ea6675f67614ef6548c4e0d786e5b9a6027ff1f"],  \* 人生关系
    [key |-> "4eba751f51b37b56",
     pre |-> "8be551b37b566d8953ca54ea4e9b5173952e53d891cf300176ee680730017ea6675f548c4e0d786e5b9a602756e07d20ff1f4e0d540c900962e976847ed3678460275dee5f02662f4ec04e48ff1f",
     hasTheme |-> FALSE,
     post |-> ""]  \* 人生决策
  >>

\* reframe.ts:92, the separator of themes.join: 与
THEME_SEPARATOR == "4e0e"

\* reframe.ts:40, the pieces of `${type}：'${matches.join("', '")}'`
ELEMENT_OPEN == "ff1a0027"
ELEMENT_JOIN == "0027002c00200027"
ELEMENT_CLOSE == "0027"

\* variables.ts:8-17 (entries in declaration order, as Object.entries yields them)
GOAL_KEYWORDS ==
  <<
    [label |-> "957f671f653651657a335b9a6027",
     keywords |-> <<"65365165", "5de58d44", "85aa8d44", "8d5a94b1", "8d2252a1", "7ecf6d4e">>],  \* 长期收入稳定性: 收入 工资 薪资 赚钱 财务 经济
    [label |-> "804c4e1a53d15c557a7a95f4",
     keywords |-> <<"53d15c55", "6210957f", "664b5347", "804c4e1a", "524d9014", "673a4f1a">>],  \* 职业发展空间: 发展 成长 晋升 职业 前途 机会
    [label |-> "751f6d3b8d2891cf",
     keywords |-> <<"751f6d3b", "5e78798f", "5feb4e50", "82129002", "81ea7531">>],  \* 生活质量: 生活 幸福 快乐 舒适 自由
    [label |-> "8eab4efd4e0e5b8951688fb99645",
     keywords |-> <<"7a335b9a", "5b895168", "4fdd969c", "8eab4efd", "7eff5361", "6c385c45">>],  \* 身份与安全边际: 稳定 安全 保障 身份 绿卡 永居
    [label |-> "6280672f002f628080fd6210957f",
     keywords |-> <<"6280672f", "628080fd", "5b664e60", "6210957f", "63d05347">>],  \* 技术/技能成长: 技术 技能 学习 成长 提升
    [label |-> "5bb65ead548c8c10",
     keywords |-> <<"5bb65ead", "5b695b50", "72366bcd", "914d5076", "5bb64eba">>],  \* 家庭和谐: 家庭 孩子 父母 配偶 家人
    [label |-> "793e4f1a8ba453ef",
     keywords |-> <<"57304f4d", "97625b50", "8ba453ef", "5c0a91cd", "6210529f">>],  \* 社会认可: 地位 面子 认可 尊重 成功
    [label |-> "4e2a4eba81ea4e3b6743",
     keywords |-> <<"81ea7531", "81ea4e3b", "900962e9", "63a75236", "72ec7acb">>]  \* 个人自主权: 自由 自主 选择 控制 独立
  >>

\* variables.ts:20-31
VARIABLE_KEYWORDS ==
  <<
    [label |-> "5e749f84",
     keywords |-> <<"5e749f84", "5c81", "5e747eaa", "5e748f7b", "80014e86">>],  \* 年龄: 年龄 岁 年纪 年轻 老了
    [label |-> "628080fd53ef8fc179fb6027",
     keywords |-> <<"628080fd", "80fd529b", "7ecf9a8c", "4e134e1a", "6280672f">>],  \* 技能可迁移性: 技能 能力 经验 专业 技术
    [label |-> "8d4491d150a85907",
     keywords |-> <<"94b1", "5b586b3e", "8d4491d1", "79ef84c4", "8d2252a1">>],  \* 资金储备: 钱 存款 资金 积蓄 财务
    [label |-> "8bed8a0080fd529b",
     keywords |-> <<"8bed8a00", "82f18bed", "59168bed", "53e38bed">>],  \* 语言能力: 语言 英语 外语 口语
    [label |-> "4eba81097f517edc",
     keywords |-> <<"4eba8109", "51737cfb", "670b53cb", "57085b50", "8d446e90">>],  \* 人脉网络: 人脉 关系 朋友 圈子 资源
    [label |-> "884c4e1a5468671f",
     keywords |-> <<"884c4e1a", "5e02573a", "7ecf6d4e", "5468671f", "98ce53e3">>],  \* 行业周期: 行业 市场 经济 周期 风口
    [label |-> "5bb65ead72b651b5",
     keywords |-> <<"5bb65ead", "5b695b50", "914d5076", "72366bcd">>],  \* 家庭状况: 家庭 孩子 配偶 父母
    [label |-> "50655eb772b651b5",
     keywords |-> <<"50655eb7", "8eab4f53", "7cbe529b">>],  \* 健康状况: 健康 身体 精力
    [label |-> "5b66538680cc666f",
     keywords |-> <<"5b665386", "5b666821", "4e134e1a", "655980b2">>],  \* 学历背景: 学历 学校 专业 教育
    [label |-> "5de54f5c7ecf9a8c",
     keywords |-> <<"7ecf9a8c", "5de54f5c", "5c655386", "80cc666f">>]  \* 工作经验: 经验 工作 履历 背景
  >>

\* variables.ts:34-43
CONSTRAINT_KEYWORDS ==
  <<
    [label |-> "7b7e8bc1002f653f7b5696505236",
     keywords |-> <<"7b7e8bc1", "653f7b56", "79fb6c11", "7eff5361", "8eab4efd">>],  \* 签证/政策限制: 签证 政策 移民 绿卡 身份
    [label |-> "8d4491d17ea6675f",
     keywords |-> <<"94b14e0d591f", "6210672c", "8d397528", "8d1f62c54e0d8d77">>],  \* 资金约束: 钱不够 成本 费用 负担不起
    [label |-> "65f695f47a9753e3",
     keywords |-> <<"65f695f4", "67654e0d53ca", "5e749f8496505236", "7a9753e3671f">>],  \* 时间窗口: 时间 来不及 年龄限制 窗口期
    [label |-> "5bb65ead8d234efb",
     keywords |-> <<"5bb65ead", "5b695b50", "72366bcd", "80014eba", "7167987e">>],  \* 家庭责任: 家庭 孩子 父母 老人 照顾
    [label |-> "5408540c002f627f8bfa7ea6675f",
     keywords |-> <<"5408540c", "7ade4e1a", "8fdd7ea6", "627f8bfa">>],  \* 合同/承诺约束: 合同 竞业 违约 承诺
    [label |-> "5b665386002f8d448d2889816c42",
     keywords |-> <<"5b665386", "8d448d28", "8bc14e66", "8ba48bc1">>],  \* 学历/资质要求: 学历 资质 证书 认证
    [label |-> "8bed8a0095e869db",
     keywords |-> <<"8bed8a00", "82f18bed", "4e0d4f1a">>],  \* 语言门槛: 语言 英语 不会
    [label |-> "884c4e1a51c65165",
     keywords |-> <<"51c65165", "95e869db", "8d44683c", "96505236">>]  \* 行业准入: 准入 门槛 资格 限制
  >>

\* variables.ts:46-53
UNCERTAINTY_KEYWORDS ==
  <<
    [label |-> "653f7b5653d85316",
     keywords |-> <<"653f7b56", "6cd589c4", "653f5e9c", "52365ea6">>],  \* 政策变化: 政策 法规 政府 制度
    [label |-> "7ecf6d4e5468671f6ce252a8",
     keywords |-> <<"7ecf6d4e", "5e02573a", "884c60c5", "5468671f", "73af5883">>],  \* 经济周期波动: 经济 市场 行情 周期 环境
    [label |-> "884c4e1a53d15c558d8b52bf",
     keywords |-> <<"884c4e1a", "6280672f", "8d8b52bf", "672a6765">>],  \* 行业发展趋势: 行业 技术 趋势 未来
    [label |-> "4e2a4eba5883904753d85316",
     keywords |-> <<"610f5916", "53d86545", "7a8153d1", "8fd06c14">>],  \* 个人境遇变化: 意外 变故 突发 运气
    [label |-> "56fd96455f6252bf",
     keywords |-> <<"56fd9645", "51737cfb", "5f6252bf", "57307f18">>],  \* 国际形势: 国际 关系 形势 地缘
    [label |-> "6280672f53d89769",
     keywords |-> <<"00410049", "6280672f", "53d89769", "66ff4ee3", "81ea52a85316">>]  \* 技术变革: AI 技术 变革 替代 自动化
  >>

\* variables.ts:79-85
getDefaultGoals ==
  <<
    "51b37b567684957f671f4ef7503c670059275316",  \* 决策的长期价值最大化
    "98ce9669572853ef627f53d7830356f45185",  \* 风险在可承受范围内
    "4fdd75598c036574548c900051fa768470756d3b6027"  \* 保留调整和退出的灵活性
  >>

\* variables.ts:90-96
getDefaultVariables ==
  <<
    "4e2a4eba80fd529b4e0e8d446e90",  \* 个人能力与资源
    "65f695f462955165",  \* 时间投入
    "591690e8673a4f1a4e0e73af5883"  \* 外部机会与环境
  >>

\* variables.ts:101-106
getDefaultConstraints ==
  <<
    "53ef75288d446e90ff0865f695f4300191d194b130017cbe529bff097684670996506027",  \* 可用资源（时间、金钱、精力）的有限性
    "4fe1606f4e0d5b8c65746027"  \* 信息不完整性
  >>

\* variables.ts:111-117
getDefaultUncertainties ==
  <<
    "591690e873af588353d85316",  \* 外部环境变化
    "4e2a4eba5883904753d85316",  \* 个人境遇变化
    "6267884c6548679c76844e0d786e5b9a6027"  \* 执行效果的不确定性
  >>

\* variables.ts:125, the separator of `${original} ${reframed}`
SPACE == "0020"

\* bias.ts:22-128, the rules in table order; each pattern is the list of its
\* alternatives, each alternative the literals that .* separates
BIAS_RULES ==
  <<
    [type |-> "survivorship",
     typeLabel |-> "5e785b588005504f5dee",
     patterns |-> <<<<<<"522b4eba", "6210529f">>>>,
                  <<<<"67094eba", "505a5230">>>>,
                  <<<<"670b53cb", "5b9e73b0">>>>,
                  <<<<"770b5230", "68484f8b">>>>,
                  <<<<"6210529f", "4f8b5b50">>>>,
                  <<<<"00580058005890fd80fd">>>>,
                  <<<<"4eba5bb690fd">>>>>>,
     description |-> "53ef80fd5c064e2a522b6210529f68484f8b8bef8ba44e3a666e904d8def5f84ff0c5ffd89c64e86592791cf672a80fd6210529f768468484f8b",
     mitigation |-> "5efa8baeff1a4e3b52a85bfb627e59318d2568484f8bff0c4e8689e359318d257684539f56e0548c69827387300251736ce857fa78407387800c975e4e2a68483002"],  \* 幸存者偏差: /别人.*成功/ /有人.*做到/ /朋友.*实现/ /看到.*案例/ /成功.*例子/ /XXX都能/ /人家都/
    [type |-> "narrative",
     typeLabel |-> "53d94e8b8c2c8bef",
     patterns |-> <<<<<<"542c8bf4">>>>,
                  <<<<"636e8bf4">>>>,
                  <<<<"67094e2a65454e8b">>>>,
                  <<<<"770b4e86", "65877ae0">>>>,
                  <<<<"7f514e0a8bf4">>>>,
                  <<<<"592700568bf4">>>>,
                  <<<<"535a4e3b">>>>,
                  <<<<"007500704e3b">>>>>>,
     description |-> "53ef80fd88ab65454e8b548c53d94e8b5f7154cd51b37b56ff0c800c975e57fa4e8e6570636e548c7cfb7edf602752066790",
     mitigation |-> "5efa8baeff1a533a520665454e8b548c6570636eff0c5bfb627e7cfb7edf602776847edf8ba14fe1606f30028b6660d560c57eea531676846210529f5b6653d94e8b3002"],  \* 叙事谬误: /听说/ /据说/ /有个故事/ /看了.*文章/ /网上说/ /大V说/ /博主/ /up主/
    [type |-> "groupPressure",
     typeLabel |-> "7fa44f53538b529b",
     patterns |-> <<<<<<"59275bb690fd">>>>,
                  <<<<"522b4eba90fd">>>>,
                  <<<<"8eab8fb9", "90fd">>>>,
                  <<<<"670b53cb90fd">>>>,
                  <<<<"540c4e8b90fd">>>>,
                  <<<<"540c9f844eba">>>>,
                  <<<<"546856f4", "4eba">>>>,
                  <<<<"8d8b52bf">>>>,
                  <<<<"98ce53e3">>>>>>,
     description |-> "53ef80fd56e04e3a002759275bb690fd8fd96837505a0027800c4ea7751f8ddf98ce51b252a8ff0c5ffd89c64e864e2a4eba67614ef676845dee5f026027",
     mitigation |-> "5efa8baeff1a660e786e81ea5df1768472ec727967614ef6548c76ee6807ff0c4e0d540c4eba900254084e0d540c8def5f843002907f514d4e3a4e8600274e0d843d540e0027800c76f276ee8ddf98ce3002"],  \* 群体压力: /大家都/ /别人都/ /身边.*都/ /朋友都/ /同事都/ /同龄人/ /周围.*人/ /趋势/ /风口/
    [type |-> "shortTermFocus",
     typeLabel |-> "77ed671f805a7126504f5dee",
     patterns |-> <<<<<<"9a6c4e0a">>>>,
                  <<<<"7acb523b">>>>,
                  <<<<"8d767d27">>>>,
                  <<<<"67654e0d53ca">>>>,
                  <<<<"95198fc7">>>>,
                  <<<<"6700540e", "673a4f1a">>>>,
                  <<<<"7a9753e3", "517395ed">>>>,
                  <<<<"518d4e0d", "5c31">>>>>>,
     description |-> "53ef80fd8fc75ea651736ce877ed671f7ed3679c548c7d278feb611fff0c800c5ffd89c6957f671f7ed36784602756e07d20",
     mitigation |-> "5efa8baeff1a62c9957f65f695f47ef45ea6601d8003ff0c533a52060027771f7d278feb0027548c002750477d278feb00273002591a65704eba751f51b37b5676845f7154cd662f957f671f76843002"],  \* 短期聚焦偏差: /马上/ /立刻/ /赶紧/ /来不及/ /错过/ /最后.*机会/ /窗口.*关闭/ /再不.*就/
    [type |-> "confirmationBias",
     typeLabel |-> "786e8ba4504f5dee",
     patterns |-> <<<<<<"621189c95f97", "5e948be5">>>>,
                  <<<<"62118ba44e3a", "5bf9">>>>,
                  <<<<"660e663e", "66f4597d">>>>,
                  <<<<"80af5b9a662f">>>>,
                  <<<<"6beb65e0759195ee">>>>,
                  <<<<"600e4e48770b90fd">>>>>>,
     description |-> "53ef80fd53ea51736ce8652f63015df2670989c270b976844fe1606fff0c5ffd89c662168d2c4f4e76f853cd76848bc1636e",
     mitigation |-> "5efa8baeff1a4e3b52a85bfb627e53cd5bf9610f89c1ff0c5c1d8bd58bba8bc176f853cd7acb573a300295ee81ea5df1ff1a00274ec04e4860c551b54e0b62114f1a653953d860f36cd5ff1f0027"],  \* 确认偏差: /我觉得.*应该/ /我认为.*对/ /明显.*更好/ /肯定是/ /毫无疑问/ /怎么看都/
    [type |-> "anchoringBias",
     typeLabel |-> "951a5b9a65485e94",
     patterns |-> <<<<<<"4e005f0059cb">>>>,
                  <<<<"6700521d">>>>,
                  <<<<"7b2c4e00", "60f36cd5">>>>,
                  <<<<"672c67654ee54e3a">>>>,
                  <<<<"539f672c", "8ba15212">>>>>>,
     description |-> "53ef80fd8fc75ea64f9d8d566700521d83b75f9776844fe1606f62167b2c4e0053708c61ff0c96be4ee56839636e65b04fe1606f8c036574522465ad",
     mitigation |-> "5efa8baeff1a5b9a671f91cd65b08bc44f3050478bbeff0c800386515982679c4ece96f65f0059cb4f1a600e4e48900962e93002907f514d88ab6c896ca16210672c5f7154cd3002"],  \* 锚定效应: /一开始/ /最初/ /第一.*想法/ /本来以为/ /原本.*计划/
    [type |-> "sunkCostFallacy",
     typeLabel |-> "6c896ca16210672c8c2c8bef",
     patterns |-> <<<<<<"5df27ecf", "62955165">>>>,
                  <<<<"82b14e86", "65f695f4">>>>,
                  <<<<"4ed851fa", "52aa529b">>>>,
                  <<<<"4e0d80fd", "767d8d39">>>>,
                  <<<<"575a6301", "8fd94e484e45">>>>,
                  <<<<"653e5f03", "53ef60dc">>>>>>,
     description |-> "53ef80fd56e04e3a5df27ecf6295516576846210672c800c575a630195198bef65b95411ff0c65e06cd5740660276b62635f",
     mitigation |-> "5efa8baeff1a51736ce8672a676576846210672c548c653676caff0c800c975e8fc753bb768462955165300295ee81ea5df1ff1a00275982679c91cd65b0900962e9ff0c8fd84f1a8fd96837505a5417ff1f0027"]  \* 沉没成本谬误: /已经.*投入/ /花了.*时间/ /付出.*努力/ /不能.*白费/ /坚持.*这么久/ /放弃.*可惜/
  >>

\* bias.ts:131-137, in declaration order
EMOTIONAL_BIAS_MAP ==
  <<
    [keyword |-> "7fa44f53538b529b", biasType |-> "groupPressure"],  \* 群体压力
    [keyword |-> "7d278feb611f50478bbe", biasType |-> "shortTermFocus"],  \* 紧迫感假设
    [keyword |-> "7ade4e8971268651", biasType |-> "groupPressure"],  \* 竞争焦虑
    [keyword |-> "98848bbe7ed38bba", biasType |-> "confirmationBias"],  \* 预设结论
    [keyword |-> "98848bbe504f597d", biasType |-> "confirmationBias"]  \* 预设偏好
  >>

\* bias.ts:182, the prefix of an inferred bias's description: 从表述中检测到：
INFERRED_PREFIX == "4ece88688ff04e2d68c06d4b5230ff1a"

\* bias.ts:213-218, the fallback entry
OTHER_BIAS ==
  [type |-> "other",
   typeLabel |-> "901a752863d09192",
   description |-> "672a68c06d4b5230660e663e76848ba477e5504f5deeff0c4f468bf74fdd63018b6660d5",
   mitigation |-> "5efa8baeff1a5b9a671f53cd601d81ea5df1768450478bbe548c63a874068fc77a0bff0c5bfb6c424e0d540c89c689d27684610f89c13002"]

\* strategies.ts:14-69 (the characteristics field is read by no function)
STRATEGY_CONFIGS ==
  <<
    [id |-> "0041", type |-> "aggressive", typeLabel |-> "6fc08fdb578b", nameTemplate |-> "7acb5373884c52a8"],  \* A aggressive 激进型 立即行动
    [id |-> "0042", type |-> "conservative", typeLabel |-> "4fdd5b88578b", nameTemplate |-> "89c2671b7b495f85"],  \* B conservative 保守型 观望等待
    [id |-> "0043", type |-> "hedge", typeLabel |-> "5bf951b2578b", nameTemplate |-> "53cc8f685e76884c"],  \* C hedge 对冲型 双轨并行
    [id |-> "0044", type |-> "exit", typeLabel |-> "6b62635f578b", nameTemplate |-> "8f6c5411653e5f03"]  \* D exit 止损型 转向放弃
  >>

\* strategies.ts:232, the pieces of `策略 ${config.id}：${config.nameTemplate}`
NAME_PREFIX == "7b5675650020"
NAME_COLON == "ff1a"

\* strategies.ts:87 and 179, the labels the conditional entries look for: 资金储备, 政策变化
CAPITAL_RESERVE == "8d4491d150a85907"
POLICY_CHANGE == "653f7b5653d85316"

\* strategies.ts:80-115, the statements every call pushes, per case
PRECONDITIONS ==
  <<
    [type |-> "aggressive",
     items |-> <<"5bf976ee680767096e0566708ba477e54e1451b35fc3575a5b9a",
                "5177590757fa672c76848d446e90548c80fd529b57fa7840",
                "80fd591f627f53d759318d2576846700574f540e679c">>],  \* aggressive: 对目标有清晰认知且决心坚定 / 具备基本的资源和能力基础 / 能够承受失败的最坏后果
    [type |-> "conservative",
     items |-> <<"5f53524d72b6600153ef63017eedff0c65e07d278feb538b529b",
                "7b495f85671f95f4670963017eed4fe1606f653696c66e209053",
                "5ef68fdf884c52a84e0d4f1a5bfc81f4673a4f1a6c384e454e275931">>],  \* conservative: 当前状态可持续，无紧迫压力 / 等待期间有持续信息收集渠道 / 延迟行动不会导致机会永久丧失
    [type |-> "hedge",
     items |-> <<"67097cbe529b548c8d446e90540c65f67ef462a4591a67618def5f84",
                "4e2467618def5f844e4b95f44e0d5b5857284e2591cd51b27a81",
                "80fd591f8bbe5b9a6e056670768451b37b5689e653d170b9">>],  \* hedge: 有精力和资源同时维护多条路径 / 两条路径之间不存在严重冲突 / 能够设定清晰的决策触发点
    [type |-> "exit",
     items |-> <<"5b58572853ef884c768466ff4ee365b95411",
                "6c896ca16210672c572853ef63a553d7830356f45185",
                "80fd591f740660278bc44f30800c975e60c57eea5316653e5f03">>]  \* exit: 存在可行的替代方向 / 沉没成本在可接受范围内 / 能够理性评估而非情绪化放弃
  >>

\* strategies.ts:88, the statement pushed when keyVariables includes CAPITAL_RESERVE: 有足够的资金支持初期投入
PRECONDITION_EXTRA == "67098db3591f76848d4491d1652f6301521d671f62955165"

\* strategies.ts:129-154
EXECUTION_COSTS ==
  <<
    [type |-> "aggressive",
     items |-> <<"65f695f4ff1a970089815168529b62955165ff0c53ef80fd63017eed6570670881f365705e74",
                "8d4491d1ff1a97008981524d671f62955165ff0c56de62a55468671f4e0d786e5b9a",
                "673a4f1a6210672cff1a653e5f0351764ed653ef80fd76848def5f84",
                "5fc374066210672cff1a627f53d78f83592776844e0d786e5b9a6027538b529b">>],  \* aggressive: 时间：需要全力投入，可能持续数月至数年 / 资金：需要前期投入，回报周期不确定 / 机会成本：放弃其他可能的路径 / 心理成本：承受较大的不确定性压力
    [type |-> "conservative",
     items |-> <<"65f695f4ff1a7b495f85671f95f4768465f695f46d888017",
                "673a4f1a6210672cff1a53ef80fd95198fc767004f737a9753e3671f",
                "5fc374066210672cff1a63017eed76844e0d786e5b9a611f548c71268651">>],  \* conservative: 时间：等待期间的时间消耗 / 机会成本：可能错过最佳窗口期 / 心理成本：持续的不确定感和焦虑
    [type |-> "hedge",
     items |-> <<"7cbe529bff1a97008981540c65f67ef462a4591a67618def5f84ff0c53ef80fd520665636ce8610f529b",
                "8d4491d1ff1a53ef80fd9700898153cc91cd62955165",
                "65487387635f5931ff1a65e06cd55168529b629551654efb4e0065b95411">>],  \* hedge: 精力：需要同时维护多条路径，可能分散注意力 / 资金：可能需要双重投入 / 效率损失：无法全力投入任一方向
    [type |-> "exit",
     items |-> <<"6c896ca16210672cff1a4e4b524d76846295516553ef80fd65e06cd556de6536",
                "5fc374066210672cff1a9700898163a553d7002759318d25002762160027653e5f030027768468077b7e",
                "91cd5efa6210672cff1a572865b065b9541191cd65b05f0059cb768462955165">>]  \* exit: 沉没成本：之前的投入可能无法回收 / 心理成本：需要接受'失败'或'放弃'的标签 / 重建成本：在新方向重新开始的投入
  >>

\* strategies.ts:156, the separator of costs.join: ；
COST_SEPARATOR == "ff1b"

\* strategies.ts:168-196, the statements every call pushes, per case
TRIGGER_POINTS ==
  <<
    [type |-> "aggressive",
     items |-> <<"5173952e8d446e90548c67614ef65df252304f4d",
                "591690e873af588351fa73b0670952297a9753e3",
                "7ee77eed7b495f8576846210672c5f0059cb8d858fc7884c52a898ce9669">>],  \* aggressive: 关键资源和条件已到位 / 外部环境出现有利窗口 / 继续等待的成本开始超过行动风险
    [type |-> "conservative",
     items |-> <<"83b75f9766f4591a5173952e4fe1606f",
                "4e0d786e5b9a6027663e8457964d4f4e",
                "51fa73b0660e786e76846b63976262168d1f97624fe153f7">>],  \* conservative: 获得更多关键信息 / 不确定性显著降低 / 出现明确的正面或负面信号
    [type |-> "hedge",
     items |-> <<"8bbe5b9a660e786e768465f695f4828270b98fdb884c8bc44f30",
                "4efb4e008def5f8451fa73b051b35b9a60278fdb5c55",
                "8d446e906d8880178fbe523098848bbe9608503c">>],  \* hedge: 设定明确的时间节点进行评估 / 任一路径出现决定性进展 / 资源消耗达到预设阈值
    [type |-> "exit",
     items |-> <<"68385fc350478bbe88ab8bc14f2a",
                "6210672c8d8551fa98848bbe6b62635f7ebf",
                "51fa73b066f44f18768466ff4ee390099879",
                "4e2a4eba72b651b553d1751f91cd592753d85316">>]  \* exit: 核心假设被证伪 / 成本超出预设止损线 / 出现更优的替代选项 / 个人状况发生重大变化
  >>

\* strategies.ts:180, the statement pushed when uncertainties includes POLICY_CHANGE: 政策环境明朗化
TRIGGER_EXTRA == "653f7b5673af5883660e67175316"

\* strategies.ts:208-220
WORST_CASES ==
  <<
    [type |-> "aggressive",
     text |-> "5168529b62955165540e59318d25ff0c635f5931592791cf65f695f430018d4491d1548c673a4f1a6210672cff0c4e1496be4ee556de5230539f70b9300253ef80fd97008981627f53d78f83957f76846062590d671f3002"],  \* aggressive
    [type |-> "conservative",
     text |-> "7b495f85671f95f47a9753e3517395edff0c67004f7365f6673a6c384e4595198fc730026216800573af588360765316ff0c540e7eed884c52a86210672c59275e454e0a53473002"],  \* conservative
    [type |-> "hedge",
     text |-> "4e248fb990fd672a80fd53d65f975b9e8d288fdb5c55ff0c8d446e90520665635bfc81f47ade4e89529b4e0d8db3300267007ec853ef80fd4e248fb990fd593153bb673a4f1a3002"],  \* hedge
    [type |-> "exit",
     text |-> "653e5f03540e539f65b95411610f591653d8597dff0c4ea7751f5f3a70c8540e609430026216800565b065b954114e5f4e0d59829884671fff0c9677516500278349573066f47eff002776845faa73af3002"]  \* exit
  >>

\* part_001 (risk.ts):22-59
DISTRIBUTION_TEMPLATES ==
  <<
    [strategyType |-> "aggressive",
     distributions |-> <<[probability |-> 20, template |-> "76ee68078fbe6210ff0c653676ca7b26540862168d8551fa9884671f"],
                        [probability |-> 35, template |-> "90e852068fbe6210ff0c7ed3679c4f4e4e8e9884671f4f4667096240653683b7"],
                        [probability |-> 30, template |-> "904752308f835927963b529bff0c970089818c0365748ba1521262165ef6957f5468671f"],
                        [probability |-> 15, template |-> "6267884c59318d25ff0c97008981627f53d7635f59315e7691cd65b089c45212"]>>],  \* aggressive: 20/35/30/15
    [strategyType |-> "conservative",
     distributions |-> <<[probability |-> 25, template |-> "7b495f85671f95f460c551b5660e6717ff0c83b75f9766f4597d7684884c52a865f6673a"],
                        [probability |-> 30, template |-> "60c551b5672a660e663e53d85316ff0c7ee77eed59044e8e7b495f8572b66001"],
                        [probability |-> 25, template |-> "7a9753e3671f65367a84ff0c540e7eed884c52a86210672c4e0a5347"],
                        [probability |-> 20, template |-> "673a4f1a4e275931ff0c970089818f6c541151764ed68def5f84"]>>],  \* conservative: 25/30/25/20
    [strategyType |-> "hedge",
     distributions |-> <<[probability |-> 20, template |-> "4e3b8def5f846210529fff0c590790098def5f845e737a33900051fa"],
                        [probability |-> 35, template |-> "4e2467618def5f8490fd67098fdb5c55ff0c97008981505a51fa67007ec8900962e9"],
                        [probability |-> 30, template |-> "7cbe529b52066563ff0c4e2467618def5f848fdb5c5590fd4e0d740660f3"],
                        [probability |-> 15, template |-> "8d446e9080175c3dff0c88ab8feb653e5f0351764e2d4e00676162164e2467618def5f84"]>>],  \* hedge: 20/35/30/15
    [strategyType |-> "exit",
     distributions |-> <<[probability |-> 30, template |-> "6210529f8f6c5411ff0c65b065b9541153d15c55826f597d"],
                        [probability |-> 35, template |-> "8f6c5411540e970089818f83957f90025e94671fff0c77ed671f51856709963575db"],
                        [probability |-> 20, template |-> "65b065b954114e5f9047523063116218ff0c97008981518d6b218c036574"],
                        [probability |-> 15, template |-> "4ea7751f540e609460c57eeaff0c5bf9653e5f0376848def5f845ff55ff54e0d5fd8"]>>]  \* exit: 30/35/20/15
  >>

\* part_001 (risk.ts):115-119, the distribution of a type with no template
DEFAULT_DISTRIBUTION ==
  <<
    [probability |-> 25, description |-> "7ed3679c597d4e8e9884671f"],  \* 结果好于预期
    [probability |-> 50, description |-> "7ed3679c7b2654089884671f"],  \* 结果符合预期
    [probability |-> 25, description |-> "7ed3679c4f4e4e8e9884671f"]  \* 结果低于预期
  >>

\* ------------------------------------------------------------ reframe.ts

\* The RegExp objects created once, when their module is loaded: the patterns
\* of EMOTIONAL_PATTERNS, of STANCE_PATTERNS and of BIAS_RULES.
RegExpObjects ==
  {<<"EMOTIONAL_PATTERNS", i, 1>> : i \in 1..Len(EMOTIONAL_PATTERNS)}
    \cup {<<"STANCE_PATTERNS", i, 1>> : i \in 1..Len(STANCE_PATTERNS)}
    \cup UNION {{<<"BIAS_RULES", r, j>> : j \in 1..Len(BIAS_RULES[r].patterns)} :
                  r \in 1..Len(BIAS_RULES)}

\* One loop of identifyEmotionalElements over table (named name), from entry i
\* on: the elements pushed and the lastIndex values left.
RECURSIVE ScanPatterns(_, _, _, _, _, _)
ScanPatterns(name, table, text, i, elements, li) ==
  IF i > Len(table) THEN [elements |-> elements, lastIndex |-> li]
  ELSE Bind(StringMatch(text, table[i].pattern, li[<<name, i, 1>>]), LAMBDA m :
       Bind([li EXCEPT ![<<name, i, 1>>] = m.lastIndex], LAMBDA li2 :
       Bind(IF m.matches # <<>>
            THEN Append(elements, table[i].type \o ELEMENT_OPEN
                                    \o Join(m.matches, ELEMENT_JOIN) \o ELEMENT_CLOSE)
            ELSE elements, LAMBDA pushed :
       ScanPatterns(name, table, text, i + 1, pushed, li2))))

identifyEmotionalElements(text, li) ==
  Bind(ScanPatterns("EMOTIONAL_PATTERNS", EMOTIONAL_PATTERNS, text, 1, <<>>, li),
       LAMBDA e :
         ScanPatterns("STANCE_PATTERNS", STANCE_PATTERNS, text, 1, e.elements, e.lastIndex))

RECURSIVE ThemesFrom(_, _)
ThemesFrom(text, i) ==
  IF i > Len(THEME_TESTS) THEN <<>>
  ELSE (IF RegExpTest(THEME_TESTS[i].pattern, text, 0).found
        THEN <<THEME_TESTS[i].theme>> ELSE <<>>) \o ThemesFrom(text, i + 1)

\* extractCoreThemes keeping only the tests of the first group.
extractCoreThemesFirstGroup(text) ==
  IF RegExpTest(THEME_TESTS[1].pattern, text, 0).found
  THEN <<THEME_TESTS[1].theme>> ELSE <<DEFAULT_THEME>>

extractCoreThemes(text) ==
  Bind(ThemesFrom(text, 1),
       LAMBDA themes : IF Len(themes) > 0 THEN themes ELSE <<DEFAULT_THEME>>)

\* templates[key]: the template with themeStr substituted, "" (undefined) when
\* templates has no such key.
TemplateFor(key, themeStr) ==
  Bind({i \in 1..Len(TEMPLATES) : TEMPLATES[i].key = key}, LAMBDA hit :
    IF hit = {} THEN ""
    ELSE Bind(TEMPLATES[Min(hit)], LAMBDA t :
           IF t.hasTheme THEN t.pre \o themeStr \o t.post ELSE t.pre))

\* generateReframedQuestion substituting text where themeStr belongs.
generateReframedQuestionOfText(text, themes) ==
  Bind(TemplateFor(themes[1], text), LAMBDA chosen :
    IF chosen # "" THEN chosen ELSE TemplateFor(DEFAULT_THEME, text))

generateReframedQuestion(text, themes) ==
  Bind(Join(themes, THEME_SEPARATOR), LAMBDA themeStr :
  Bind(TemplateFor(themes[1], themeStr), LAMBDA chosen :
    IF chosen # "" THEN chosen ELSE TemplateFor(DEFAULT_THEME, themeStr)))

\* analyzeAndReframe(problemText): the ReframedProblem and the lastIndex values left.
analyzeAndReframe(problemText, li) ==
  Bind(identifyEmotionalElements(problemText, li), LAMBDA e :
  Bind(extractCoreThemes(problemText), LAMBDA themes :
    [value |-> [original |-> problemText,
                reframed |-> generateReframedQuestion(problemText, themes),
                emotionalElements |-> e.elements],
     lastIndex |-> e.lastIndex]))

\* ---------------------------------------------------------- variables.ts

\* MatchFrom without the break: the label is pushed for every keyword of it the
\* text includes.
RECURSIVE MatchFromNoBreak(_, _, _)
MatchFromNoBreak(text, keywordMap, i) ==
  IF i > Len(keywordMap) THEN <<>>
  ELSE [n \in 1..Cardinality({k \in 1..Len(keywordMap[i].keywords) :
                                StringIncludes(text, keywordMap[i].keywords[k])}) |->
          keywordMap[i].label] \o MatchFromNoBreak(text, keywordMap, i + 1)

\* The labels matchKeywords has pushed once the loop is at entry i and after.
RECURSIVE MatchFrom(_, _, _)
MatchFrom(text, keywordMap, i) ==
  IF i > Len(keywordMap) THEN <<>>
  ELSE (IF \E k \in 1..Len(keywordMap[i].keywords) :
              StringIncludes(text, keywordMap[i].keywords[k])
        THEN <<keywordMap[i].label>> ELSE <<>>) \o MatchFrom(text, keywordMap, i + 1)

matchKeywords(text, keywordMap) == MatchFrom(text, keywordMap, 1)

\* OrDefault without the fallback to the default list.
OrDefaultNone(matched, default) == matched

\* matched.length > 0 ? matched : getDefault...()
OrDefault(matched, default) ==
  Bind(matched, LAMBDA m : IF Len(m) = 0 THEN default ELSE m)

analyzeVariables(reframedProblem) ==
  Bind(reframedProblem.original \o SPACE \o reframedProblem.reframed,
       LAMBDA combinedText :
         [goals |->
            OrDefault(matchKeywords(combinedText, GOAL_KEYWORDS), getDefaultGoals),
          keyVariables |->
            OrDefault(matchKeywords(combinedText, VARIABLE_KEYWORDS), getDefaultVariables),
          hardConstraints |->
            OrDefault(matchKeywords(combinedText, CONSTRAINT_KEYWORDS),
                      getDefaultConstraints),
          uncertainties |->
            OrDefault(matchKeywords(combinedText, UNCERTAINTY_KEYWORDS),
                      getDefaultUncertainties)])

\* --------------------------------------------------------- strategies.ts

\* The entries a switch on config.type pushes: those of the case of that type,
\* none when no case matches.
CaseItems(table, type) ==
  Bind({i \in 1..Len(table) : table[i].type = type},
       LAMBDA hit : IF hit = {} THEN <<>> ELSE table[Min(hit)].items)

generatePreconditions(config, variables) ==
  CaseItems(PRECONDITIONS, config.type)
    \o (IF config.type = "aggressive"
             /\ ArrayIncludes(variables.keyVariables, CAPITAL_RESERVE)
        THEN <<PRECONDITION_EXTRA>> ELSE <<>>)

generateExecutionCost(config, variables) ==
  Join(CaseItems(EXECUTION_COSTS, config.type), COST_SEPARATOR)

generateTriggerPoints(config, variables) ==
  CaseItems(TRIGGER_POINTS, config.type)
    \o (IF config.type = "conservative"
             /\ ArrayIncludes(variables.uncertainties, POLICY_CHANGE)
        THEN <<TRIGGER_EXTRA>> ELSE <<>>)

\* generateWorstCase reading its constraints parameter: no worst case is named
\* when there is no hard constraint.
generateWorstCaseOfConstraints(config, constraints) ==
  Bind({i \in 1..Len(WORST_CASES) : WORST_CASES[i].type = config.type},
       LAMBDA hit : IF hit = {} \/ Len(constraints) = 0 THEN ""
                    ELSE WORST_CASES[Min(hit)].text)

generateWorstCase(config, constraints) ==
  Bind({i \in 1..Len(WORST_CASES) : WORST_CASES[i].type = config.type},
       LAMBDA hit : IF hit = {} THEN "" ELSE WORST_CASES[Min(hit)].text)

\* generateStrategies going through STRATEGY_CONFIGS from its last entry to its
\* first.
generateStrategiesReversed(reframedProblem, variables) ==
  [strategies |->
     [c \in 1..Len(STRATEGY_CONFIGS) |->
        Bind(STRATEGY_CONFIGS[Len(STRATEGY_CONFIGS) + 1 - c], LAMBDA config :
          [id |-> config.id,
           name |-> NAME_PREFIX \o config.id \o NAME_COLON \o config.nameTemplate,
           type |-> config.type,
           typeLabel |-> config.typeLabel,
           preconditions |-> generatePreconditions(config, variables),
           executionCost |-> generateExecutionCost(config, variables),
           triggerPoints |-> generateTriggerPoints(config, variables),
           worstCase |-> generateWorstCase(config, variables.hardConstraints)])]]

generateStrategies(reframedProblem, variables) ==
  [strategies |->
     [c \in 1..Len(STRATEGY_CONFIGS) |->
        Bind(STRATEGY_CONFIGS[c], LAMBDA config :
          [id |-> config.id,
           name |-> NAME_PREFIX \o config.id \o NAME_COLON \o config.nameTemplate,
           type |-> config.type,
           typeLabel |-> config.typeLabel,
           preconditions |-> generatePreconditions(config, variables),
           executionCost |-> generateExecutionCost(config, variables),
           triggerPoints |-> generateTriggerPoints(config, variables),
           worstCase |-> generateWorstCase(config, variables.hardConstraints)])]]

\* ----------------------------------------------------- risk.ts (part_001)
\* The probabilities between adjustForUncertainties and normalizeProbabilities
\* are multiples of 1/8 (2.5 * n/4 = 5n/8, 5 * n/4 = 10n/8): they are kept as
\* counts of eighths, field probability8.  Doubles hold these values exactly,
\* and for every template and level p / total * 100 is at least 0.03 away
\* from a half, so Math.round gives the exact rounding computed here.

\* Adjustment8 with Math.max in place of Math.min in uncertaintyLevel.
Adjustment8Max(index, uncertainties) ==
  LET level4 == IF Len(uncertainties) > 4 THEN Len(uncertainties) ELSE 4
      isMiddle == index = 1 \/ index = 2
  IN IF isMiddle THEN -10 * level4 ELSE 5 * level4

\* The adjustment of the bucket at position index (counted from 0), in eighths.
Adjustment8(index, uncertainties) ==
  LET level4 == IF Len(uncertainties) < 4 THEN Len(uncertainties) ELSE 4
      isMiddle == index = 1 \/ index = 2
  IN IF isMiddle THEN -10 * level4 ELSE 5 * level4

\* Math.max(5, Math.min(50, p)) on eighths.
Clamp8(p8) == IF p8 > 400 THEN 400 ELSE IF p8 < 40 THEN 40 ELSE p8

\* adjustForUncertainties counting the different uncertainties, not the entries.
adjustForUncertaintiesByContent(distributions, uncertainties) ==
  [i \in 1..Len(distributions) |->
     [probability8 |->
        Clamp8(8 * distributions[i].probability
                 + Adjustment8(i - 1, [n \in 1..Cardinality({uncertainties[u] :
                                          u \in 1..Len(uncertainties)}) |-> ""])),
      description |-> distributions[i].description]]

adjustForUncertainties(distributions, uncertainties) ==
  [i \in 1..Len(distributions) |->
     [probability8 |->
        Clamp8(8 * distributions[i].probability + Adjustment8(i - 1, uncertainties)),
      description |-> distributions[i].description]]

RECURSIVE Total8(_, _)
Total8(distributions, i) ==
  IF i > Len(distributions) THEN 0
  ELSE distributions[i].probability8 + Total8(distributions, i + 1)

\* RoundedShare with Math.floor in place of Math.round.
RoundedShareFloor(p8, total8) == (100 * p8) \div total8

\* Math.round(p / total * 100) = floor(100 p / total + 1/2)
RoundedShare(p8, total8) == (200 * p8 + total8) \div (2 * total8)

normalizeProbabilities(distributions) ==
  Bind(Total8(distributions, 1), LAMBDA total :
    [i \in 1..Len(distributions) |->
       [probability |-> RoundedShare(distributions[i].probability8, total),
        description |-> distributions[i].description]])

\* analyzeRisk looking for the template of strategy.id, not of strategy.type.
analyzeRiskById(strategySpace, variables) ==
  [s \in 1..Len(strategySpace.strategies) |->
     Bind(strategySpace.strategies[s], LAMBDA strategy :
     Bind({t \in 1..Len(DISTRIBUTION_TEMPLATES) :
             DISTRIBUTION_TEMPLATES[t].strategyType = strategy.id}, LAMBDA found :
       IF found = {}
       THEN [strategyId |-> strategy.id,
             strategyName |-> strategy.name,
             distributions |-> DEFAULT_DISTRIBUTION]
       ELSE Bind(DISTRIBUTION_TEMPLATES[Min(found)], LAMBDA template :
            Bind([d \in 1..Len(template.distributions) |->
                    [probability |-> template.distributions[d].probability,
                     description |-> template.distributions[d].template]], LAMBDA base :
            Bind(adjustForUncertainties(base, variables.uncertainties), LAMBDA adjusted :
              [strategyId |-> strategy.id,
               strategyName |-> strategy.name,
               distributions |-> normalizeProbabilities(adjusted)])))))]

analyzeRisk(strategySpace, variables) ==
  [s \in 1..Len(strategySpace.strategies) |->
     Bind(strategySpace.strategies[s], LAMBDA strategy :
     Bind({t \in 1..Len(DISTRIBUTION_TEMPLATES) :
             DISTRIBUTION_TEMPLATES[t].strategyType = strategy.type}, LAMBDA found :
       IF found = {}
       THEN [strategyId |-> strategy.id,
             strategyName |-> strategy.name,
             distributions |-> DEFAULT_DISTRIBUTION]
       ELSE Bind(DISTRIBUTION_TEMPLATES[Min(found)], LAMBDA template :
            Bind([d \in 1..Len(template.distributions) |->
                    [probability |-> template.distributions[d].probability,
                     description |-> template.distributions[d].template]], LAMBDA base :
            Bind(adjustForUncertainties(base, variables.uncertainties), LAMBDA adjusted :
              [strategyId |-> strategy.id,
               strategyName |-> strategy.name,
               distributions |-> normalizeProbabilities(adjusted)])))))]

\* ----------------------------------------------------------------- bias.ts

\* BiasRegExp had the literals of the table carried the g flag.
BiasRegExpGlobal(alts) == [alts |-> alts, global |-> TRUE, ignoreCase |-> FALSE]

\* A pattern of BIAS_RULES as a RegExp: the literals of the table carry no flag.
BiasRegExp(alts) == [alts |-> alts, global |-> FALSE, ignoreCase |-> FALSE]

HasType(biases, type) == \E b \in 1..Len(biases) : biases[b].type = type

\* The inner loop of detectBiasesFromText for rule r: the patterns are tested in
\* order up to the first that matches (break), each on its own RegExp object.
TestPatterns(text, r, li) ==
  Bind([j \in 1..Len(BIAS_RULES[r].patterns) |->
          RegExpTest(BiasRegExp(BIAS_RULES[r].patterns[j]), text,
                     li[<<"BIAS_RULES", r, j>>])], LAMBDA tests :
  Bind({j \in DOMAIN tests : tests[j].found}, LAMBDA hits :
  Bind(IF hits = {} THEN Len(tests) ELSE Min(hits), LAMBDA last :
    [found |-> hits # {},
     lastIndex |->
       [o \in DOMAIN li |->
          IF o[1] = "BIAS_RULES" /\ o[2] = r /\ o[3] <= last
          THEN tests[o[3]].lastIndex ELSE li[o]]])))

\* detectBiasesFromText from rule r on: the biases pushed and the lastIndex
\* values left.
RECURSIVE DetectFrom(_, _, _, _)
DetectFrom(text, r, biases, li) ==
  IF r > Len(BIAS_RULES) THEN [biases |-> biases, lastIndex |-> li]
  ELSE Bind(BIAS_RULES[r], LAMBDA rule :
         IF HasType(biases, rule.type)
         THEN DetectFrom(text, r + 1, biases, li)
         ELSE Bind(TestPatterns(text, r, li), LAMBDA t :
              Bind(IF t.found
                   THEN Append(biases, [type |-> rule.type,
                                        typeLabel |-> rule.typeLabel,
                                        description |-> rule.description,
                                        mitigation |-> rule.mitigation])
                   ELSE biases,
                   LAMBDA pushed : DetectFrom(text, r + 1, pushed, t.lastIndex))))

\* detectBiasesFromText leaving the loop over the rules at the first rule that
\* matches (return in place of break).
detectBiasesFromTextFirst(text, li) ==
  Bind(DetectFrom(text, 1, <<>>, li), LAMBDA d :
    [biases |-> IF d.biases = <<>> THEN <<>> ELSE <<d.biases[1]>>,
     lastIndex |-> d.lastIndex])

detectBiasesFromText(text, li) == DetectFrom(text, 1, <<>>, li)

\* The inner loop of inferBiasesFromEmotions for one element, from entry k of
\* EMOTIONAL_BIAS_MAP on. A type is marked detected before its rule is looked
\* up, and a type with no rule pushes nothing.
RECURSIVE InferEntries(_, _, _, _)
InferEntries(element, k, biases, detectedTypes) ==
  IF k > Len(EMOTIONAL_BIAS_MAP)
  THEN [biases |-> biases, detectedTypes |-> detectedTypes]
  ELSE Bind(EMOTIONAL_BIAS_MAP[k], LAMBDA entry :
         IF StringIncludes(element, entry.keyword) /\ entry.biasType \notin detectedTypes
         THEN Bind({r \in 1..Len(BIAS_RULES) : BIAS_RULES[r].type = entry.biasType},
                   LAMBDA rules :
              Bind(IF rules = {} THEN biases
                   ELSE Append(biases,
                          [type |-> BIAS_RULES[Min(rules)].type,
                           typeLabel |-> BIAS_RULES[Min(rules)].typeLabel,
                           description |-> INFERRED_PREFIX \o element,
                           mitigation |-> BIAS_RULES[Min(rules)].mitigation]),
                   LAMBDA pushed :
              Bind(detectedTypes \cup {entry.biasType}, LAMBDA added :
                InferEntries(element, k + 1, pushed, added))))
         ELSE InferEntries(element, k + 1, biases, detectedTypes))

\* inferBiasesFromEmotions from element e on.
RECURSIVE InferFrom(_, _, _, _)
InferFrom(emotionalElements, e, biases, detectedTypes) ==
  IF e > Len(emotionalElements) THEN biases
  ELSE Bind(InferEntries(emotionalElements[e], 1, biases, detectedTypes), LAMBDA done :
         InferFrom(emotionalElements, e + 1, done.biases, done.detectedTypes))

\* inferBiasesFromEmotions going through emotionalElements from the last to the
\* first.
inferBiasesFromEmotionsBackwards(emotionalElements) ==
  InferFrom([e \in 1..Len(emotionalElements) |->
               emotionalElements[Len(emotionalElements) + 1 - e]], 1, <<>>, {})

inferBiasesFromEmotions(emotionalElements) ==
  InferFrom(emotionalElements, 1, <<>>, {})

\* The merge loop of analyzeBias without the detectedTypes test.
MergeFromAll(allBiases, emotionBiases, i) ==
  allBiases \o SubSeq(emotionBiases, i, Len(emotionBiases))

\* The merge loop of analyzeBias from entry i of emotionBiases on.
RECURSIVE MergeFrom(_, _, _)
MergeFrom(allBiases, emotionBiases, i) ==
  IF i > Len(emotionBiases) THEN allBiases
  ELSE Bind(IF HasType(allBiases, emotionBiases[i].type) THEN allBiases
            ELSE Append(allBiases, emotionBiases[i]),
            LAMBDA pushed : MergeFrom(pushed, emotionBiases, i + 1))

\* analyzeBias with the fallback decided on textBiases, before the merge.
analyzeBiasEarlyFallback(reframedProblem, li) ==
  Bind(detectBiasesFromText(reframedProblem.original, li), LAMBDA text :
  Bind(inferBiasesFromEmotions(reframedProblem.emotionalElements), LAMBDA emotionBiases :
  Bind(MergeFrom(IF Len(text.biases) = 0 THEN <<OTHER_BIAS>> ELSE text.biases,
                 emotionBiases, 1), LAMBDA allBiases :
    [value |-> [biases |-> allBiases], lastIndex |-> text.lastIndex])))

\* analyzeBias(reframedProblem): the BiasWarnings and the lastIndex values left.
analyzeBias(reframedProblem, li) ==
  Bind(detectBiasesFromText(reframedProblem.original, li), LAMBDA text :
  Bind(inferBiasesFromEmotions(reframedProblem.emotionalElements), LAMBDA emotionBiases :
  Bind(MergeFrom(text.biases, emotionBiases, 1), LAMBDA allBiases :
    [value |-> [biases |-> IF Len(allBiases) = 0 THEN <<OTHER_BIAS>> ELSE allBiases],
     lastIndex |-> text.lastIndex])))

\* ------------------------------------- analyze-decision.ts (architecture.md)

\* analyzeDecision(problemText): the DecisionAnalysis and the lastIndex values left.
analyzeDecision(problemText, li) ==
  Bind(analyzeAndReframe(problemText, li), LAMBDA reframed :
  Bind(reframed.value, LAMBDA reframedProblem :
  Bind(analyzeVariables(reframedProblem), LAMBDA variablesAndConstraints :
  Bind(generateStrategies(reframedProblem, variablesAndConstraints),
       LAMBDA strategySpace :
  Bind(analyzeRisk(strategySpace, variablesAndConstraints), LAMBDA riskRewardAnalysis :
  Bind(analyzeBias(reframedProblem, reframed.lastIndex), LAMBDA bias :
    [value |-> [reframedProblem |-> reframedProblem,
                variablesAndConstraints |-> variablesAndConstraints,
                strategySpace |-> strategySpace,
                riskRewardAnalysis |-> riskRewardAnalysis,
                biasWarnings |-> bias.value],
     lastIndex |-> bias.lastIndex]))))))

\* ------------------- formatAnalysisResult (analyze-decision.ts, architecture.md)

\* The fixed lines formatAnalysisResult pushes.
\* architecture.md:306  # 决策结构分析报告
FMT_TITLE == "0023002051b37b567ed367845206679062a5544a"
\* architecture.md:310  ## 1. 问题重述
FMT_SECTION_1 == "0023002300200031002e002095ee989891cd8ff0"
\* architecture.md:312  **原始问题：**
FMT_ORIGINAL == "002a002a539f59cb95ee9898ff1a002a002a"
\* architecture.md:315  **重述后的核心问题：**
FMT_REFRAMED == "002a002a91cd8ff0540e768468385fc395ee9898ff1a002a002a"
\* architecture.md:319  **识别出的情绪化元素：**
FMT_ELEMENTS == "002a002a8bc6522b51fa768460c57eea531651437d20ff1a002a002a"
\* architecture.md:327  ## 2. 变量与约束
FMT_SECTION_2 == "0023002300200032002e002053d891cf4e0e7ea6675f"
\* architecture.md:329  ### 目标
FMT_GOALS == "002300230023002076ee6807"
\* architecture.md:334  ### 关键变量
FMT_KEY_VARIABLES == "00230023002300205173952e53d891cf"
\* architecture.md:339  ### 硬约束
FMT_HARD_CONSTRAINTS == "0023002300230020786c7ea6675f"
\* architecture.md:344  ### 不确定性来源
FMT_UNCERTAINTIES == "00230023002300204e0d786e5b9a602767656e90"
\* architecture.md:351  ## 3. 策略空间
FMT_SECTION_3 == "0023002300200033002e00207b5675657a7a95f4"
\* architecture.md:356  **前提条件：**
FMT_PRECONDITIONS == "002a002a524d63d067614ef6ff1a002a002a"
\* architecture.md:361  **执行成本：**
FMT_EXECUTION_COST == "002a002a6267884c6210672cff1a002a002a"
\* architecture.md:364  **触发点：**
FMT_TRIGGER_POINTS == "002a002a89e653d170b9ff1a002a002a"
\* architecture.md:369  **最坏情况：**
FMT_WORST_CASE == "002a002a6700574f60c551b5ff1a002a002a"
\* architecture.md:375  ## 4. 风险与回报分布
FMT_SECTION_4 == "0023002300200034002e002098ce96694e0e56de62a552065e03"
\* architecture.md:380  ```
FMT_FENCE == "006000600060"
\* architecture.md:390  ## 5. 认知偏差提示
FMT_SECTION_5 == "0023002300200035002e00208ba477e5504f5dee63d0793a"
\* architecture.md:402  ---
FMT_RULE == "002d002d002d"
\* architecture.md:404  *本分析旨在暴露决策结构，而非给出答案。最终选择取决于你对自身目标和约束的权衡。*
FMT_CLOSING == "002a672c5206679065e8572866b4973251b37b567ed36784ff0c800c975e7ed951fa7b546848300267007ec8900962e953d651b34e8e4f605bf981ea8eab76ee6807548c7ea6675f7684674388613002002a"

\* The fixed pieces of the template literals.
\* architecture.md:313  `> ${analysis.reframedProblem.original}`
FMT_QUOTE == "003e0020"
\* architecture.md:321  `- ${element}`
FMT_ITEM == "002d0020"
\* architecture.md:354  `### ${strategy.name}（${strategy.typeLabel}）`
FMT_HEADING_3 == "0023002300230020"
\* architecture.md:354  `### ${strategy.name}（${strategy.typeLabel}）`
FMT_LABEL_OPEN == "ff08"
\* architecture.md:354  `### ${strategy.name}（${strategy.typeLabel}）`
FMT_LABEL_CLOSE == "ff09"
\* architecture.md:382  "█".repeat(...)
FMT_BLOCK == "2588"
\* architecture.md:383  `${...padStart(2)}% ${bar} ${dist.description}`
FMT_PERCENT == "00250020"
\* architecture.md:393  `### ⚠️ ${bias.typeLabel}`
FMT_BIAS_HEADING == "002300230023002026a0fe0f0020"
\* architecture.md:395  `**表现：** ${bias.description}`
FMT_SHOWS == "002a002a886873b0ff1a002a002a0020"
\* architecture.md:397  `**${bias.mitigation}**`
FMT_BOLD == "002a002a"
\* architecture.md:406  lines.join("\n")
NEWLINE == "000a"

\* The decimal digits, for Number.prototype.toString.
Digits == <<"0030", "0031", "0032", "0033", "0034", "0035", "0036", "0037", "0038", "0039">>

\* n.toString() of an integer n >= 0 (Number.prototype.toString).
RECURSIVE NumberToString(_)
NumberToString(n) ==
  IF n < 10 THEN Digits[n + 1] ELSE NumberToString(n \div 10) \o Digits[(n % 10) + 1]

\* s.padStart(n): spaces in front until the string has n code units.
RECURSIVE PadStart(_, _)
PadStart(s, n) == IF Length(s) >= n THEN s ELSE PadStart(SPACE \o s, n)

\* s.repeat(n)
RECURSIVE Repeat(_, _)
Repeat(s, n) == IF n = 0 THEN "" ELSE s \o Repeat(s, n - 1)

\* Math.round(probability / 5) in the place of Math.floor(probability / 5).
BarLengthRounded(probability) == (2 * probability + 5) \div 10

\* Math.floor(dist.probability / 5)
BarLength(probability) == probability \div 5

\* for (const x of list) lines.push(`- ${x}`)
Items(list) == [i \in 1..Len(list) |-> FMT_ITEM \o list[i]]

\* The lines pushed by a loop whose i-th round pushes blocks[i].
RECURSIVE Flatten(_)
Flatten(blocks) ==
  IF Len(blocks) = 0 THEN <<>> ELSE blocks[1] \o Flatten(Tail(blocks))

\* The lines of section 1.
ReframedLines(reframedProblem) ==
  <<FMT_SECTION_1, "",
    FMT_ORIGINAL, FMT_QUOTE \o reframedProblem.original, "",
    FMT_REFRAMED, FMT_QUOTE \o reframedProblem.reframed, "">>
  \o (IF Len(reframedProblem.emotionalElements) > 0
      THEN <<FMT_ELEMENTS>> \o Items(reframedProblem.emotionalElements) \o <<"">>
      ELSE <<>>)

\* The lines of section 2.
VariablesLines(variables) ==
  <<FMT_SECTION_2, "">>
  \o <<FMT_GOALS>> \o Items(variables.goals) \o <<"">>
  \o <<FMT_KEY_VARIABLES>> \o Items(variables.keyVariables) \o <<"">>
  \o <<FMT_HARD_CONSTRAINTS>> \o Items(variables.hardConstraints) \o <<"">>
  \o <<FMT_UNCERTAINTIES>> \o Items(variables.uncertainties) \o <<"">>

\* The lines of one strategy of section 3.
StrategyLines(strategy) ==
  <<FMT_HEADING_3 \o strategy.name \o FMT_LABEL_OPEN \o strategy.typeLabel
      \o FMT_LABEL_CLOSE, "">>
  \o <<FMT_PRECONDITIONS>> \o Items(strategy.preconditions) \o <<"">>
  \o <<FMT_EXECUTION_COST, strategy.executionCost, "">>
  \o <<FMT_TRIGGER_POINTS>> \o Items(strategy.triggerPoints) \o <<"">>
  \o <<FMT_WORST_CASE, strategy.worstCase, "">>

\* The line of one outcome of section 4.
OutcomeLine(dist) ==
  PadStart(NumberToString(dist.probability), 2) \o FMT_PERCENT
    \o Repeat(FMT_BLOCK, BarLength(dist.probability)) \o SPACE \o dist.description

\* The lines of one entry of riskRewardAnalysis.
RiskLines(riskAnalysis) ==
  <<FMT_HEADING_3 \o riskAnalysis.strategyName, "", FMT_FENCE>>
  \o [d \in 1..Len(riskAnalysis.distributions) |->
        OutcomeLine(riskAnalysis.distributions[d])]
  \o <<FMT_FENCE, "">>

\* The lines of one bias warning of section 5.
BiasLines(bias) ==
  <<FMT_BIAS_HEADING \o bias.typeLabel, "",
    FMT_SHOWS \o bias.description, "",
    FMT_BOLD \o bias.mitigation \o FMT_BOLD, "">>

\* formatAnalysisResult(analysis): the Markdown text of a DecisionAnalysis.
formatAnalysisResult(analysis) ==
  Join(<<FMT_TITLE, "">>
       \o ReframedLines(analysis.reframedProblem)
       \o VariablesLines(analysis.variablesAndConstraints)
       \o <<FMT_SECTION_3, "">>
       \o Flatten([s \in 1..Len(analysis.strategySpace.strategies) |->
                     StrategyLines(analysis.strategySpace.strategies[s])])
       \o <<FMT_SECTION_4, "">>
       \o Flatten([r \in 1..Len(analysis.riskRewardAnalysis) |->
                     RiskLines(analysis.riskRewardAnalysis[r])])
       \o <<FMT_SECTION_5, "">>
       \o Flatten([b \in 1..Len(analysis.biasWarnings.biases) |->
                     BiasLines(analysis.biasWarnings.biases[b])])
       \o <<FMT_RULE, "", FMT_CLOSING>>,
       NEWLINE)

\* ------------------------------------------------------------------- inputs

\* Scenario 1: 我很焦虑，到底要不要辞职创业，已经投入了两年时间，感觉大家都在卷
Scenario1 ==
  "62115f8871268651ff0c52305e9589814e0d89818f9e804c521b4e1aff0c5df27ecf629551654e864e245e7465f695f4ff0c611f89c959275bb690fd57285377"

\* Scenario 2: xyzxyzxyz unmatched filler text
Scenario2 == "00780079007a00780079007a00780079007a00200075006e006d006100740063006800650064002000660069006c006c0065007200200074006500780074"

\* Scenario 4: 今天天气不错，出门散步了一圈 (no bias pattern, no emotional wording)
Scenario4 == "4eca592959296c144e0d9519ff0c51fa95e865636b654e864e005708"

\* Two texts with a career topic word and a finance topic word: 工作创业, 创业工作
CareerThenFinance == "5de54f5c521b4e1a"
FinanceThenCareer == "521b4e1a5de54f5c"

\* The pieces the generated texts are made of:
\*   "59275bb690fd"  大家都: peer-pressure wording and a groupPressure pattern
\*   "5377"  卷: competitive-anxiety wording, no bias pattern
\*   "5df27ecf"  已经: first literal of /已经.*投入/
\*   "62955165"  投入: second literal of /已经.*投入/
\*   "000a"  '\n': a line terminator, which .* does not cross
\*   "521b4e1a"  创业: a finance topic word
\*   "5de54f5c"  工作: a career topic word and a keyword of 工作经验
\*   "653f7b56"  政策: a keyword of 签证/政策限制 and of 政策变化
\*   "94b1"  钱: a keyword of 资金储备
\*   "0041006d0061007a0069006e0067"  Amazing: matched by /amazing/gi only
Fragments ==
  {"59275bb690fd",
   "5377",
   "5df27ecf",
   "62955165",
   "000a",
   "521b4e1a",
   "5de54f5c",
   "653f7b56",
   "94b1",
   "0041006d0061007a0069006e0067"}

\* The emotional elements the direct calls of analyzeBias draw from:
\*   "7fa44f53538b529bff1a002759275bb690fd0027"  群体压力：'大家都': a label mapped to groupPressure
\*   "7ade4e8971268651ff1a002753770027"  竞争焦虑：'卷': another label mapped to groupPressure
\*   "7d278feb611f50478bbeff1a0027518d4e0d7fa44f53538b529b5c3167654e0d53ca0027"  紧迫感假设：'再不群体压力就来不及': a label mapped to shortTermFocus, quoting a text that holds another marker
\*   "98848bbe7ed38bbaff1a0027621189c95f975e948be50027"  预设结论：'我觉得应该': a label mapped to confirmationBias
\*   "7126865160c57eeaff1a0027712686510027"  焦虑情绪：'焦虑': a label mapped to nothing
ElementPool ==
  {"7fa44f53538b529bff1a002759275bb690fd0027",
   "7ade4e8971268651ff1a002753770027",
   "7d278feb611f50478bbeff1a0027518d4e0d7fa44f53538b529b5c3167654e0d53ca0027",
   "98848bbe7ed38bbaff1a0027621189c95f975e948be50027",
   "7126865160c57eeaff1a0027712686510027"}

\* The original texts of the direct calls of analyzeBias: Scenario 4, Scenario 1,
\* 大家都在卷 and 我觉得应该马上行动
BiasOriginals ==
  {Scenario4, Scenario1,
   "59275bb690fd57285377",
   "621189c95f975e948be59a6c4e0a884c52a8"}

\* The labels the uncertainties of the direct calls of analyzeRisk draw from:
\* 政策变化 and 个人境遇变化
UncertaintyLabels == {POLICY_CHANGE, "4e2a4eba5883904753d85316"}

\* The key variables of the direct calls of generateStrategies: 年龄, 资金储备
VariableLabels == {"5e749f84", CAPITAL_RESERVE}

\* Bounds of the inputs: the pieces in a generated problem text, the pieces in
\* a text of the repeated-call specification, the emotional elements in a direct
\* call of analyzeBias, the uncertainties in a direct call of analyzeRisk, and
\* the entries of keyVariables / uncertainties in a direct call of
\* generateStrategies.
MaxFragments == 2
MaxRepeatFragments == 1
MaxElements == 2
MaxUncertainties == 5
MaxLabels == 2

\* The sequences of at most n members of S.
RECURSIVE SeqsUpTo(_, _)
SeqsUpTo(S, n) ==
  IF n = 0 THEN {<<>>}
  ELSE LET shorter == SeqsUpTo(S, n - 1)
       IN shorter \cup {Append(q, x) : q \in shorter, x \in S}

\* The texts made of at most n members of S, one after the other.
RECURSIVE TextsUpTo(_, _)
TextsUpTo(S, n) ==
  IF n = 0 THEN {""}
  ELSE LET shorter == TextsUpTo(S, n - 1)
       IN shorter \cup {t \o f : t \in shorter, f \in S}

\* The least length of problem_text the tools accept.
MinLength == 10

\* A problem text whose urgency match quotes the words 群体压力: 再不群体压力就来不及
UrgencyOfPressure == "518d4e0d7fa44f53538b529b5c3167654e0d53ca"

ProblemTexts ==
  {Scenario1, Scenario2, Scenario4, UrgencyOfPressure}
    \cup TextsUpTo(Fragments, MaxFragments)

\* The pieces of the repeated-call texts: 大家都, 卷, 已经, 投入, 创业, 工作
RepeatFragments ==
  {"59275bb690fd", "5377", "5df27ecf", "62955165", "521b4e1a", "5de54f5c"}
RepeatTexts ==
  {Scenario1, Scenario2, Scenario4, CareerThenFinance, FinanceThenCareer}
    \cup TextsUpTo(RepeatFragments, MaxRepeatFragments)

\* The values of VariablesAndConstraints the direct calls pass.
VariablesWith(keyVariables, uncertainties) ==
  [goals |-> getDefaultGoals,
   keyVariables |-> keyVariables,
   hardConstraints |-> getDefaultConstraints,
   uncertainties |-> uncertainties]

\* A ReframedProblem as analyzeAndReframe builds it, for the direct calls.
ReframedOf(text) == analyzeAndReframe(text, [o \in RegExpObjects |-> 0]).value

\* A strategy of a type DISTRIBUTION_TEMPLATES has no entry for.
UnknownStrategy ==
  [id |-> "0045", name |-> "0045", type |-> "unknown", typeLabel |-> "",
   preconditions |-> <<>>, executionCost |-> "", triggerPoints |-> <<>>,
   worstCase |-> ""]

StrategySpaces ==
  {generateStrategies(ReframedOf(Scenario2), VariablesWith(<<CAPITAL_RESERVE>>, <<>>)),
   generateStrategies(ReframedOf(Scenario2), VariablesWith(<<>>, <<POLICY_CHANGE>>)),
   [strategies |-> <<UnknownStrategy>>],
   [strategies |-> <<>>]}

\* The values of ReframedProblem the direct calls of analyzeVariables pass:
\* original is empty, 收入工资 (two keywords of one goal), 自由 (a keyword of two
\* goals) or 政策意外; reframed is empty, 钱 or 晋升.
VariablesOriginals == {"", "653651655de58d44", "81ea7531", "653f7b56610f5916"}
VariablesReframeds == {"", "94b1", "664b5347"}
ReframedProblems ==
  {[original |-> original, reframed |-> reframed, emotionalElements |-> <<>>] :
     original \in VariablesOriginals, reframed \in VariablesReframeds}

\* A problem text of two lines: 大家都, a line break, 卷
TwoLineText == "59275bb690fd" \o NEWLINE \o "5377"

\* A DecisionAnalysis put together by hand: a strategy of no known type, and
\* probabilities of one, one and three digits.
HandMadeAnalysis ==
  [reframedProblem |-> [original |-> "", reframed |-> "", emotionalElements |-> <<>>],
   variablesAndConstraints |-> VariablesWith(<<>>, <<>>),
   strategySpace |-> [strategies |-> <<UnknownStrategy>>],
   riskRewardAnalysis |->
     <<[strategyId |-> "0045", strategyName |-> "0045",
        distributions |-> <<[probability |-> 4, description |-> "0061"],
                            [probability |-> 7, description |-> "0062"],
                            [probability |-> 100, description |-> "0063"]>>]>>,
   biasWarnings |-> [biases |-> <<>>]]

\* The values of DecisionAnalysis the direct calls of formatAnalysisResult pass:
\* what analyzeDecision returns for three texts, and the one made by hand.
Analyses ==
  {analyzeDecision(text, [o \in RegExpObjects |-> 0]).value :
     text \in {Scenario1, Scenario4, TwoLineText}}
    \cup {HandMadeAnalysis}

\* The goals, keyVariables and hardConstraints of a direct call of analyzeRisk,
\* and the goals and hardConstraints of a direct call of generateStrategies:
\* none, or the defaults of analyzeVariables.
OtherVariables ==
  {[goals |-> <<>>, keyVariables |-> <<>>, hardConstraints |-> <<>>],
   [goals |-> getDefaultGoals, keyVariables |-> getDefaultVariables,
    hardConstraints |-> getDefaultConstraints]}

\* ------------------------------------------------------------ state machine

NoCall == [fn |-> "none"]
NoValue == <<>>
Nothing == [call |-> NoCall, ret |-> NoValue]

Init ==
  /\ pc = "idle"
  /\ call = NoCall
  /\ ret = NoValue
  /\ lastIndex = [o \in RegExpObjects |-> 0]
  /\ earlier = Nothing

\* A caller calls analyzeDecision(problemText): a tool handler, with a text of
\* at least MinLength characters, or another importer of the function, with
\* any string.
CallAnalyzeDecision(problemText) ==
  /\ pc = "idle"
  /\ \E r \in {analyzeDecision(problemText, lastIndex)} :
       /\ ret' = r.value
       /\ lastIndex' = r.lastIndex
  /\ call' = [fn |-> "analyzeDecision", problemText |-> problemText]
  /\ pc' = "returned"
  /\ UNCHANGED earlier

\* A caller of the analyzers module calls generateStrategies.
CallGenerateStrategies(reframedProblem, variables) ==
  /\ pc = "idle"
  /\ ret' = generateStrategies(reframedProblem, variables)
  /\ call' = [fn |-> "generateStrategies", reframedProblem |-> reframedProblem,
              variables |-> variables]
  /\ pc' = "returned"
  /\ UNCHANGED <<lastIndex, earlier>>

\* A caller of the analyzers module calls analyzeRisk.
CallAnalyzeRisk(strategySpace, variables) ==
  /\ pc = "idle"
  /\ ret' = analyzeRisk(strategySpace, variables)
  /\ call' = [fn |-> "analyzeRisk", strategySpace |-> strategySpace,
              variables |-> variables]
  /\ pc' = "returned"
  /\ UNCHANGED <<lastIndex, earlier>>

\* A caller of the analyzers module calls analyzeBias.
CallAnalyzeBias(reframedProblem) ==
  /\ pc = "idle"
  /\ \E r \in {analyzeBias(reframedProblem, lastIndex)} :
       /\ ret' = r.value
       /\ lastIndex' = r.lastIndex
  /\ call' = [fn |-> "analyzeBias", reframedProblem |-> reframedProblem]
  /\ pc' = "returned"
  /\ UNCHANGED earlier

\* A caller of the analyzers module calls analyzeVariables.
CallAnalyzeVariables(reframedProblem) ==
  /\ pc = "idle"
  /\ ret' = analyzeVariables(reframedProblem)
  /\ call' = [fn |-> "analyzeVariables", reframedProblem |-> reframedProblem]
  /\ pc' = "returned"
  /\ UNCHANGED <<lastIndex, earlier>>

\* A tool handler, or another importer, calls formatAnalysisResult.
CallFormatAnalysisResult(analysis) ==
  /\ pc = "idle"
  /\ ret' = formatAnalysisResult(analysis)
  /\ call' = [fn |-> "formatAnalysisResult", analysis |-> analysis]
  /\ pc' = "returned"
  /\ UNCHANGED <<lastIndex, earlier>>

\* The caller is done with the value returned: nothing of the call is kept.
Return ==
  /\ pc = "returned"
  /\ pc' = "idle"
  /\ call' = NoCall
  /\ ret' = NoValue
  /\ UNCHANGED <<lastIndex, earlier>>

\* The caller is done with the value returned, and an observer keeps the call
\* and the value: the first analyzeDecision call it picks.
Remember ==
  /\ pc = "returned"
  /\ call.fn = "analyzeDecision"
  /\ earlier = Nothing
  /\ earlier' = [call |-> call, ret |-> ret]
  /\ pc' = "idle"
  /\ call' = NoCall
  /\ ret' = NoValue
  /\ UNCHANGED lastIndex

Next ==
  \/ \E problemText \in ProblemTexts : CallAnalyzeDecision(problemText)
  \/ \E text \in {Scenario1, Scenario2} :
       \E reframedProblem \in {ReframedOf(text)} :
         \E others \in OtherVariables,
            keyVariables \in SeqsUpTo(VariableLabels, MaxLabels),
            uncertainties \in SeqsUpTo(UncertaintyLabels, MaxLabels) :
           CallGenerateStrategies(reframedProblem,
                                  [goals |-> others.goals,
                                   keyVariables |-> keyVariables,
                                   hardConstraints |-> others.hardConstraints,
                                   uncertainties |-> uncertainties])
  \/ \E strategySpace \in StrategySpaces,
        others \in OtherVariables,
        uncertainties \in SeqsUpTo(UncertaintyLabels, MaxUncertainties) :
       CallAnalyzeRisk(strategySpace,
                       [goals |-> others.goals,
                        keyVariables |-> others.keyVariables,
                        hardConstraints |-> others.hardConstraints,
                        uncertainties |-> uncertainties])
  \/ \E original \in BiasOriginals,
        emotionalElements \in SeqsUpTo(ElementPool, MaxElements) :
       CallAnalyzeBias([original |-> original, reframed |-> "",
                        emotionalElements |-> emotionalElements])
  \/ \E analysis \in Analyses : CallFormatAnalysisResult(analysis)
  \/ \E reframedProblem \in ReframedProblems : CallAnalyzeVariables(reframedProblem)
  \/ Return

Spec == Init /\ [][Next]_vars

\* Calls of analyzeDecision only, one after the other, with an observer.
NextRepeat ==
  \/ \E problemText \in RepeatTexts : CallAnalyzeDecision(problemText)
  \/ Return
  \/ Remember

SpecRepeat == Init /\ [][NextRepeat]_vars


\* ------------------------------------------------------------------ claims

\* The values the claims name.
\* A
ID_A == "0041"
\* B
ID_B == "0042"
\* C
ID_C == "0043"
\* D
ID_D == "0044"
\* 群体压力
GROUP_PRESSURE_LABEL == "7fa44f53538b529b"
\* 职业发展
THEME_CAREER == "804c4e1a53d15c55"
\* 财务决策
THEME_FINANCE == "8d2252a151b37b56"
\* 在当前个人条件（技能、经验、资源）和市场环境下，不同
REFRAMED_CAREER == "57285f53524d4e2a4eba67614ef6ff08628080fd30017ecf9a8c30018d446e90ff09548c5e02573a73af58834e0bff0c4e0d540c"
\* 财务决策在不同情景下的风险收益分布和个人承受能力匹配度如何？
REFRAMED_FINANCE == "8d2252a151b37b5657284e0d540c60c5666f4e0b768498ce9669653676ca52065e03548c4e2a4eba627f53d780fd529b5339914d5ea659824f55ff1f"
\* '
QUOTE == "0027"
\* 焦虑情绪
TYPE_ANXIETY == "7126865160c57eea"
\* 焦虑
WORD_ANXIETY == "71268651"
\* 决策焦虑
TYPE_DECISION == "51b37b5671268651"
\* 要不要
WORD_DECISION == "89814e0d8981"
\* 紧迫感假设：'再不群体压力就来不及'
ELEMENT_URGENCY == "7d278feb611f50478bbeff1a0027518d4e0d7fa44f53538b529b5c3167654e0d53ca0027"
\* 预设结论：'我觉得应该'
ELEMENT_PRESET == "98848bbe7ed38bbaff1a0027621189c95f975e948be50027"
\* 大家都在卷
TEXT_EVERYONE == "59275bb690fd57285377"
\* 收入工资
INCOME_AND_WAGES == "653651655de58d44"
\* 长期收入稳定性
GOAL_INCOME == "957f671f653651657a335b9a6027"

Returned(fn) == pc = "returned" /\ call.fn = fn

RECURSIVE SumOfProbabilities(_, _)
SumOfProbabilities(distributions, i) ==
  IF i > Len(distributions) THEN 0
  ELSE distributions[i].probability + SumOfProbabilities(distributions, i + 1)

Probabilities(distributions) ==
  [i \in 1..Len(distributions) |-> distributions[i].probability]

TypesOf(entries) == [i \in 1..Len(entries) |-> entries[i].type]

StrategyTypes == {"aggressive", "conservative", "hedge", "exit"}

\* C1: for every strategy of type aggressive, conservative, hedge or exit and
\* every number of uncertainties, the probabilities of the distributions
\* analyzeRisk returns for that strategy sum to exactly 100 - in a direct call
\* and in the riskRewardAnalysis of analyzeDecision.
C1_ProbabilitiesSumTo100 ==
  /\ Returned("analyzeRisk") =>
       \A s \in 1..Len(ret) :
         call.strategySpace.strategies[s].type \in StrategyTypes =>
           SumOfProbabilities(ret[s].distributions, 1) = 100
  /\ Returned("analyzeDecision") =>
       \A s \in 1..Len(ret.riskRewardAnalysis) :
         SumOfProbabilities(ret.riskRewardAnalysis[s].distributions, 1) = 100

\* analyzeRisk has returned for the four strategy types and more than four
\* uncertainties: the level is capped, every bucket is adjusted away from its
\* template, and each strategy's probabilities sum to 100.
C1_Witness ==
  /\ Returned("analyzeRisk")
  /\ Len(call.variables.uncertainties) > 4
  /\ TypesOf(call.strategySpace.strategies)
       = <<"aggressive", "conservative", "hedge", "exit">>
  /\ Probabilities(ret[1].distributions) = <<24, 32, 26, 18>>
  /\ \A s \in 1..4 : SumOfProbabilities(ret[s].distributions, 1) = 100

\* C2: for every input text, the DecisionAnalysis analyzeDecision returns has
\* non-empty goals, keyVariables, hardConstraints and uncertainties, exactly 4
\* strategies, and a non-empty biases list.
C2_NonEmptyLists ==
  Returned("analyzeDecision") =>
    /\ Len(ret.variablesAndConstraints.goals) > 0
    /\ Len(ret.variablesAndConstraints.keyVariables) > 0
    /\ Len(ret.variablesAndConstraints.hardConstraints) > 0
    /\ Len(ret.variablesAndConstraints.uncertainties) > 0
    /\ Len(ret.strategySpace.strategies) = 4
    /\ Len(ret.biasWarnings.biases) > 0

\* analyzeDecision has returned for the Scenario-2 text, where no keyword of
\* the variable, constraint and uncertainty maps matches and no bias is
\* detected: the lists are the fallbacks.
C2_Witness ==
  /\ Returned("analyzeDecision")
  /\ call.problemText = Scenario2
  /\ ret.variablesAndConstraints.keyVariables = getDefaultVariables
  /\ ret.variablesAndConstraints.hardConstraints = getDefaultConstraints
  /\ ret.variablesAndConstraints.uncertainties = getDefaultUncertainties
  /\ ret.biasWarnings.biases = <<OTHER_BIAS>>
  /\ Len(ret.strategySpace.strategies) = 4

\* The ids A, B, C, D and the types in the fixed order.
FixedOrder(strategies) ==
  /\ Len(strategies) = 4
  /\ [i \in 1..4 |-> strategies[i].id] = <<ID_A, ID_B, ID_C, ID_D>>
  /\ TypesOf(strategies) = <<"aggressive", "conservative", "hedge", "exit">>

\* C3: for every reframed problem and variables, generateStrategies returns
\* exactly four strategies in the fixed order A = aggressive, B = conservative,
\* C = hedge, D = exit (so ids and types are unique and cover the enum) - in a
\* direct call and in the strategySpace of analyzeDecision.
C3_FourStrategiesInOrder ==
  /\ Returned("generateStrategies") => FixedOrder(ret.strategies)
  /\ Returned("analyzeDecision") => FixedOrder(ret.strategySpace.strategies)

\* generateStrategies has returned for variables that add the conditional
\* precondition and trigger point, and the four strategies are in order.
C3_Witness ==
  /\ Returned("generateStrategies")
  /\ ArrayIncludes(call.variables.keyVariables, CAPITAL_RESERVE)
  /\ ArrayIncludes(call.variables.uncertainties, POLICY_CHANGE)
  /\ Len(ret.strategies[1].preconditions) = 4
  /\ Len(ret.strategies[2].triggerPoints) = 4
  /\ FixedOrder(ret.strategies)

NoTwoOfOneType(biases) ==
  \A i, j \in 1..Len(biases) : biases[i].type = biases[j].type => i = j

\* C4: for every original text and emotionalElements list, the biases
\* analyzeBias returns hold no two entries of the same type - in a direct call
\* and in the biasWarnings of analyzeDecision.
C4_BiasTypesUnique ==
  /\ Returned("analyzeBias") => NoTwoOfOneType(ret.biases)
  /\ Returned("analyzeDecision") => NoTwoOfOneType(ret.biasWarnings.biases)

\* analyzeBias has returned for a text and elements where a text rule and an
\* emotion mapping give the same type, another emotion mapping gives a second
\* type, and the result holds each type once.
C4_Witness ==
  /\ Returned("analyzeBias")
  /\ \E i \in 1..Len(ret.biases) :
       /\ ret.biases[i].type = "groupPressure"
       /\ ~StartsWith(ret.biases[i].description, INFERRED_PREFIX, 0)
  /\ \E e \in 1..Len(call.reframedProblem.emotionalElements) :
       StringIncludes(call.reframedProblem.emotionalElements[e], GROUP_PRESSURE_LABEL)
  /\ Len(ret.biases) >= 2
  /\ NoTwoOfOneType(ret.biases)

\* C5: a call of analyzeDecision with the problemText of an earlier call,
\* whatever calls came before and between the two, returns the value the
\* earlier call returned.
C5_SameTextSameAnalysis ==
  (/\ Returned("analyzeDecision")
   /\ earlier # Nothing
   /\ call.problemText = earlier.call.problemText) => ret = earlier.ret

\* A later call with the Scenario-1 text (patterns with the g flag match, bias
\* rules fire) has returned what the remembered call with that text returned.
C5_Witness ==
  /\ Returned("analyzeDecision")
  /\ earlier # Nothing
  /\ call.problemText = Scenario1
  /\ earlier.call.problemText = Scenario1
  /\ Len(ret.reframedProblem.emotionalElements) > 0
  /\ ret = earlier.ret

\* The text is one the tool accepts (z.string().min(10)), contains no keyword
\* of the four keyword maps and matches no topic group.
NoKeywordNoTopic(text) ==
  /\ Length(text) >= MinLength
  /\ matchKeywords(text, GOAL_KEYWORDS) = <<>>
  /\ matchKeywords(text, VARIABLE_KEYWORDS) = <<>>
  /\ matchKeywords(text, CONSTRAINT_KEYWORDS) = <<>>
  /\ matchKeywords(text, UNCERTAINTY_KEYWORDS) = <<>>
  /\ ThemesFrom(text, 1) = <<>>

\* C6: for an input text (of the length the tool accepts) with no keyword of any of the four keyword maps and
\* no topic group, the goals, keyVariables, hardConstraints and uncertainties
\* of the pipeline are each that dimension's default list.
C6_DefaultsWhenNoKeyword ==
  (Returned("analyzeDecision") /\ NoKeywordNoTopic(call.problemText)) =>
    /\ ret.variablesAndConstraints.goals = getDefaultGoals
    /\ ret.variablesAndConstraints.keyVariables = getDefaultVariables
    /\ ret.variablesAndConstraints.hardConstraints = getDefaultConstraints
    /\ ret.variablesAndConstraints.uncertainties = getDefaultUncertainties

\* C7, as stated: for the Scenario-1 text the core theme chosen is
\* 职业发展, and reframed is the template of that theme (which opens with
\* REFRAMED_CAREER, before the themes are named).
C7_Scenario1Career ==
  (Returned("analyzeDecision") /\ call.problemText = Scenario1) =>
    /\ extractCoreThemes(call.problemText)[1] = THEME_CAREER
    /\ StartsWith(ret.reframedProblem.reframed, REFRAMED_CAREER, 0)

\* C7, amended: for the Scenario-1 text the only core theme is 财务决策
\* (no word of the career group occurs in it, and 创业 is a word of the finance
\* group), and reframed is the template of that theme.
C7_Scenario1Finance ==
  (Returned("analyzeDecision") /\ call.problemText = Scenario1) =>
    /\ extractCoreThemes(call.problemText) = <<THEME_FINANCE>>
    /\ ret.reframedProblem.reframed = REFRAMED_FINANCE

\* analyzeDecision has returned for the Scenario-1 text with the finance
\* template as reframed.
C7_Witness ==
  /\ Returned("analyzeDecision")
  /\ call.problemText = Scenario1
  /\ ret.reframedProblem.original = Scenario1
  /\ ret.reframedProblem.reframed = REFRAMED_FINANCE

\* An element of the given type that quotes the given match.
Quotes(elements, type, match) ==
  \E e \in 1..Len(elements) :
    /\ StartsWith(elements[e], type \o ELEMENT_OPEN, 0)
    /\ StringIncludes(elements[e], QUOTE \o match \o QUOTE)

\* C8: for the Scenario-1 text, emotionalElements holds a 焦虑情绪 entry
\* quoting 焦虑 and a 决策焦虑 entry quoting 要不要, and
\* biases holds a sunkCostFallacy entry and a groupPressure entry.
C8_Scenario1ElementsAndBiases ==
  (Returned("analyzeDecision") /\ call.problemText = Scenario1) =>
    /\ Quotes(ret.reframedProblem.emotionalElements, TYPE_ANXIETY, WORD_ANXIETY)
    /\ Quotes(ret.reframedProblem.emotionalElements, TYPE_DECISION, WORD_DECISION)
    /\ \E b \in 1..Len(ret.biasWarnings.biases) :
         ret.biasWarnings.biases[b].type = "sunkCostFallacy"
    /\ \E b \in 1..Len(ret.biasWarnings.biases) :
         ret.biasWarnings.biases[b].type = "groupPressure"

\* analyzeDecision has returned for the Scenario-1 text with its four
\* emotional elements and its two biases.
C8_Witness ==
  /\ Returned("analyzeDecision")
  /\ call.problemText = Scenario1
  /\ Len(ret.reframedProblem.emotionalElements) = 4
  /\ TypesOf(ret.biasWarnings.biases) = <<"groupPressure", "sunkCostFallacy">>

\* C9: for a strategy of type aggressive and an empty uncertainties list,
\* analyzeRisk returns the four probabilities 20, 35, 30, 15 in that order.
C9_AggressiveNoUncertainty ==
  Returned("analyzeRisk") =>
    \A s \in 1..Len(ret) :
      (/\ call.strategySpace.strategies[s].type = "aggressive"
       /\ call.variables.uncertainties = <<>>) =>
        /\ Probabilities(ret[s].distributions) = <<20, 35, 30, 15>>
        /\ SumOfProbabilities(ret[s].distributions, 1) = 100

\* analyzeRisk has returned for a strategy space whose first strategy is
\* aggressive and an empty uncertainties list.
C9_Witness ==
  /\ Returned("analyzeRisk")
  /\ call.variables.uncertainties = <<>>
  /\ Len(ret) = 4
  /\ call.strategySpace.strategies[1].type = "aggressive"
  /\ Len(ret[1].distributions) = 4
  /\ ret[1].distributions[1].probability = 20

\* No text rule fires on the original text and the emotional elements give no
\* inferred bias.
NothingDetected(reframedProblem) ==
  /\ \A r \in 1..Len(BIAS_RULES) :
       \A j \in 1..Len(BIAS_RULES[r].patterns) :
         ~RegExpTest(BiasRegExp(BIAS_RULES[r].patterns[j]),
                     reframedProblem.original, 0).found
  /\ \A e \in 1..Len(reframedProblem.emotionalElements) :
       \A k \in 1..Len(EMOTIONAL_BIAS_MAP) :
         ~StringIncludes(reframedProblem.emotionalElements[e],
                         EMOTIONAL_BIAS_MAP[k].keyword)

OtherOnlyWhenNothing(reframedProblem, biases) ==
  /\ NothingDetected(reframedProblem) =>
       (Len(biases) = 1 /\ biases[1].type = "other")
  /\ (\E b \in 1..Len(biases) : biases[b].type = "other") =>
       (NothingDetected(reframedProblem) /\ Len(biases) = 1)

\* C10: analyzeBias returns exactly one entry, of type "other", when no text
\* rule fires and no emotion-inferred bias is produced; and an "other" entry is
\* present only in that case, never with an entry of another type - in a
\* direct call and in the biasWarnings of analyzeDecision.
C10_OtherOnlyAsFallback ==
  /\ Returned("analyzeBias") => OtherOnlyWhenNothing(call.reframedProblem, ret.biases)
  /\ Returned("analyzeDecision") =>
       OtherOnlyWhenNothing(ret.reframedProblem, ret.biasWarnings.biases)

\* analyzeBias has returned the fallback entry for the Scenario-4 text and no
\* emotional element.
C10_Witness ==
  /\ Returned("analyzeBias")
  /\ call.reframedProblem.original = Scenario4
  /\ call.reframedProblem.emotionalElements = <<>>
  /\ ret.biases = <<OTHER_BIAS>>

\* The topic themes of text, as extractCoreThemes lists them.
ThemesOf(text) == extractCoreThemes(text)

\* The entry of templates for theme, with label where the template names the
\* theme.
Substituted(theme, label) ==
  LET t == TEMPLATES[CHOOSE i \in 1..Len(TEMPLATES) : TEMPLATES[i].key = theme]
  IN IF t.hasTheme THEN t.pre \o label \o t.post ELSE t.pre

\* C11, as stated: reframed is the template of the first matching topic group
\* with that single theme label substituted, so a call whose text has the same
\* first matching group as an earlier call's text returns the same reframed
\* text, whatever later groups the two texts match.
C11_FirstGroupAlone ==
  Returned("analyzeDecision") =>
    /\ ret.reframedProblem.reframed
         = Substituted(ThemesOf(call.problemText)[1], ThemesOf(call.problemText)[1])
    /\ (/\ earlier # Nothing
        /\ ThemesOf(earlier.call.problemText)[1] = ThemesOf(call.problemText)[1])
         => ret.reframedProblem.reframed = earlier.ret.reframedProblem.reframed

\* C11, amended: reframed is the template of the first matching topic group
\* with the labels of all matching groups substituted, joined by 与 in test
\* order; a call whose text matches the same groups as an earlier call's text
\* returns the same reframed text.
C11_AllGroupsNamed ==
  Returned("analyzeDecision") =>
    /\ ret.reframedProblem.reframed
         = Substituted(ThemesOf(call.problemText)[1],
                       Join(ThemesOf(call.problemText), THEME_SEPARATOR))
    /\ (/\ earlier # Nothing
        /\ ThemesOf(earlier.call.problemText) = ThemesOf(call.problemText))
         => ret.reframedProblem.reframed = earlier.ret.reframedProblem.reframed

\* A call for a text of two topic groups has returned, after an earlier call
\* for another text of the same two groups: both reframed texts are the career
\* template naming both themes.
C11_Witness ==
  /\ Returned("analyzeDecision")
  /\ earlier # Nothing
  /\ call.problemText = FinanceThenCareer
  /\ earlier.call.problemText = CareerThenFinance
  /\ ThemesOf(call.problemText) = <<THEME_CAREER, THEME_FINANCE>>
  /\ StartsWith(ret.reframedProblem.reframed,
                REFRAMED_CAREER \o THEME_CAREER \o THEME_SEPARATOR \o THEME_FINANCE, 0)
  /\ ret.reframedProblem.reframed = earlier.ret.reframedProblem.reframed

\* ---------------------------------------------------------------- C12

\* The places of the line breaks of a text.
Breaks(text) == {k \in 0..(Length(text) - 1) : Slice(text, k, k + 1) = NEWLINE}

RECURSIVE LinesFrom(_, _, _)
LinesFrom(text, from, breaks) ==
  LET rest == {k \in breaks : k >= from}
  IN IF rest = {} THEN <<Slice(text, from, Length(text))>>
     ELSE LET break == Min(rest)
          IN <<Slice(text, from, break)>> \o LinesFrom(text, break + 1, breaks)

\* The lines of a text: the pieces between its line breaks.
LinesOf(text) == LET breaks == Breaks(text) IN LinesFrom(text, 0, breaks)

\* The first place at or after from where the lines of block stand one after
\* the other in lines, 0 when there is none.
FindBlock(lines, block, from) ==
  LET at == {i \in from..(Len(lines) - Len(block) + 1) :
               SubSeq(lines, i, i + Len(block) - 1) = block}
  IN IF at = {} THEN 0 ELSE Min(at)

\* Each of the blocks stands in lines, after the end of the one before it.
RECURSIVE InOrder(_, _, _)
InOrder(lines, blocks, from) ==
  IF Len(blocks) = 0 THEN TRUE
  ELSE LET i == FindBlock(lines, blocks[1], from)
       IN i # 0 /\ InOrder(lines, Tail(blocks), i + Len(blocks[1]))

\* A label line and the items of its list, in the order of the list.
Listed(label, list) == <<label>> \o [i \in 1..Len(list) |-> FMT_ITEM \o list[i]]

\* The four sub-sections of a strategy.
SubSections(strategy) ==
  <<Listed(FMT_PRECONDITIONS, strategy.preconditions),
    <<FMT_EXECUTION_COST, strategy.executionCost>>,
    Listed(FMT_TRIGGER_POINTS, strategy.triggerPoints),
    <<FMT_WORST_CASE, strategy.worstCase>>>>

\* The row of an outcome: the percentage, then floor(probability / 5) markers,
\* then the description.
OutcomeRow(dist) ==
  PadStart(NumberToString(dist.probability), 2) \o FMT_PERCENT
    \o Repeat(FMT_BLOCK, dist.probability \div 5) \o SPACE \o dist.description

\* The rows of one entry of riskRewardAnalysis, between the fences.
OutcomeRows(riskAnalysis) ==
  <<FMT_FENCE>>
  \o [d \in 1..Len(riskAnalysis.distributions) |->
        OutcomeRow(riskAnalysis.distributions[d])]
  \o <<FMT_FENCE>>

\* What the text of an analysis shows, piece after piece.
Projection(analysis) ==
  <<<<FMT_SECTION_1>>>>
  \o (IF Len(analysis.reframedProblem.emotionalElements) > 0
      THEN <<Listed(FMT_ELEMENTS, analysis.reframedProblem.emotionalElements)>>
      ELSE <<>>)
  \o <<<<FMT_SECTION_2>>,
       Listed(FMT_GOALS, analysis.variablesAndConstraints.goals),
       Listed(FMT_KEY_VARIABLES, analysis.variablesAndConstraints.keyVariables),
       Listed(FMT_HARD_CONSTRAINTS, analysis.variablesAndConstraints.hardConstraints),
       Listed(FMT_UNCERTAINTIES, analysis.variablesAndConstraints.uncertainties),
       <<FMT_SECTION_3>>>>
  \o Flatten([s \in 1..Len(analysis.strategySpace.strategies) |->
                SubSections(analysis.strategySpace.strategies[s])])
  \o <<<<FMT_SECTION_4>>>>
  \o [r \in 1..Len(analysis.riskRewardAnalysis) |->
        OutcomeRows(analysis.riskRewardAnalysis[r])]
  \o <<<<FMT_SECTION_5>>>>
  \o [b \in 1..Len(analysis.biasWarnings.biases) |->
        <<FMT_BIAS_HEADING \o analysis.biasWarnings.biases[b].typeLabel>>]

\* C12: the text formatAnalysisResult returns starts with the title line, then
\* shows the headings of sections 1 to 5 in this order; inside section 3 each
\* strategy's preconditions, execution cost, trigger points and worst case in
\* this order; every list's items in the order of the data; and for each outcome
\* a row whose bar has exactly floor(probability / 5) markers.
C12_OrderPreservingProjection ==
  Returned("formatAnalysisResult") =>
    LET lines == LinesOf(ret)
    IN /\ lines[1] = FMT_TITLE
       /\ InOrder(lines, Projection(call.analysis), 2)

\* formatAnalysisResult has returned the text of an analysis with a strategy
\* of every kind, emotional elements, a bias warning and an outcome whose
\* probability is no multiple of 5: the text shows all of it in order.
C12_Witness ==
  /\ Returned("formatAnalysisResult")
  /\ Len(call.analysis.strategySpace.strategies) = Len(STRATEGY_CONFIGS)
  /\ Len(call.analysis.reframedProblem.emotionalElements) > 0
  /\ Len(call.analysis.biasWarnings.biases) > 0
  /\ \E r \in 1..Len(call.analysis.riskRewardAnalysis) :
       \E d \in 1..Len(call.analysis.riskRewardAnalysis[r].distributions) :
         call.analysis.riskRewardAnalysis[r].distributions[d].probability % 5 # 0
  /\ LinesOf(ret)[1] = FMT_TITLE
  /\ InOrder(LinesOf(ret), Projection(call.analysis), 2)

\* ---------------------------------------------------------------- C13

\* The labels of a keyword map with a keyword the text includes, each once, in
\* the order the map declares them.
MatchedLabels(text, keywordMap) ==
  LET hits == SelectSeq(keywordMap,
                        LAMBDA entry : \E k \in 1..Len(entry.keywords) :
                                         StringIncludes(text, entry.keywords[k]))
  IN [i \in 1..Len(hits) |-> hits[i].label]

\* The list is the matched labels, or the default list when no label matched.
MatchedOrDefault(list, text, keywordMap, default) ==
  LET matched == MatchedLabels(text, keywordMap)
  IN /\ matched # <<>> => list = matched
     /\ matched = <<>> => list = default
     /\ \A i, j \in 1..Len(matched) : matched[i] = matched[j] => i = j

AllMatchedOrDefault(reframedProblem, variables) ==
  LET buffer == reframedProblem.original \o SPACE \o reframedProblem.reframed
  IN /\ MatchedOrDefault(variables.goals, buffer, GOAL_KEYWORDS, getDefaultGoals)
     /\ MatchedOrDefault(variables.keyVariables, buffer, VARIABLE_KEYWORDS,
                         getDefaultVariables)
     /\ MatchedOrDefault(variables.hardConstraints, buffer, CONSTRAINT_KEYWORDS,
                         getDefaultConstraints)
     /\ MatchedOrDefault(variables.uncertainties, buffer, UNCERTAINTY_KEYWORDS,
                         getDefaultUncertainties)

\* C13: each of the four lists analyzeVariables returns is exactly the labels of
\* its keyword map that have a keyword in original + " " + reframed, each once
\* and in the order of the map, or, when and only when no label matched, exactly
\* its default list; in a direct call and in the pipeline.
C13_MatchedOrDefault ==
  /\ Returned("analyzeVariables") => AllMatchedOrDefault(call.reframedProblem, ret)
  /\ Returned("analyzeDecision") =>
       AllMatchedOrDefault(ret.reframedProblem, ret.variablesAndConstraints)

\* analyzeVariables has returned for a text with two keywords of one goal and no
\* keyword of a variable: the goal is listed once, keyVariables is the default.
C13_Witness ==
  /\ Returned("analyzeVariables")
  /\ call.reframedProblem.original = INCOME_AND_WAGES
  /\ call.reframedProblem.reframed = ""
  /\ ret.goals = <<GOAL_INCOME>>
  /\ ret.keyVariables = getDefaultVariables

\* ---------------------------------------------------------------- C14

\* A strategy space with nothing but the id, name and type of each strategy.
TypesOnly(strategySpace) ==
  [strategies |->
     [s \in 1..Len(strategySpace.strategies) |->
        [id |-> strategySpace.strategies[s].id,
         name |-> strategySpace.strategies[s].name,
         type |-> strategySpace.strategies[s].type]]]

\* Variables with nothing but n uncertainties, each the empty string.
CountOnly(n) == [uncertainties |-> [u \in 1..n |-> ""]]

\* C14: what analyzeRisk returns is what it returns for the ids, names and types
\* of the strategies alone and for as many uncertainties, at most 4, whatever
\* they are: the content of the uncertainties, the goals, the key variables and
\* the hard constraints change nothing, and 4 or more uncertainties give what 4
\* give.
C14_TypesAndCountOnly ==
  Returned("analyzeRisk") =>
    ret = analyzeRisk(TypesOnly(call.strategySpace),
                      CountOnly(Min({Len(call.variables.uncertainties), 4})))

\* analyzeRisk has returned for the four strategies, no goals and five
\* uncertainties of two kinds: the result is that of four empty uncertainties,
\* and not that of three.
C14_Witness ==
  /\ Returned("analyzeRisk")
  /\ Len(call.strategySpace.strategies) = Len(STRATEGY_CONFIGS)
  /\ call.variables.goals = <<>>
  /\ Len(call.variables.uncertainties) = 5
  /\ \E u, v \in 1..5 : call.variables.uncertainties[u] # call.variables.uncertainties[v]
  /\ ret = analyzeRisk(TypesOnly(call.strategySpace), CountOnly(4))
  /\ ret # analyzeRisk(TypesOnly(call.strategySpace), CountOnly(3))

\* ---------------------------------------------------------------- C15

\* C15: the riskRewardAnalysis analyzeDecision returns has one entry for each
\* strategy, in the order of the strategies and with the id and the name of its
\* strategy; every entry has exactly 4 outcomes, each with a probability from 0
\* to 100, and none is the fallback of three outcomes.
C15_OneEntryOfFourPerStrategy ==
  Returned("analyzeDecision") =>
    /\ Len(ret.riskRewardAnalysis) = Len(ret.strategySpace.strategies)
    /\ \A i \in 1..Len(ret.riskRewardAnalysis) :
         /\ ret.riskRewardAnalysis[i].strategyId = ret.strategySpace.strategies[i].id
         /\ ret.riskRewardAnalysis[i].strategyName = ret.strategySpace.strategies[i].name
         /\ Len(ret.riskRewardAnalysis[i].distributions) = 4
         /\ ret.riskRewardAnalysis[i].distributions # DEFAULT_DISTRIBUTION
         /\ \A d \in 1..4 :
              ret.riskRewardAnalysis[i].distributions[d].probability \in 0..100

\* analyzeDecision has returned four strategies A to D and four entries of
\* riskRewardAnalysis, the last one of strategy D, with four outcomes.
C15_Witness ==
  /\ Returned("analyzeDecision")
  /\ Len(ret.strategySpace.strategies) = 4
  /\ Len(ret.riskRewardAnalysis) = 4
  /\ ret.strategySpace.strategies[4].id = ID_D
  /\ ret.riskRewardAnalysis[4].strategyId = ID_D
  /\ ret.riskRewardAnalysis[4].strategyName = ret.strategySpace.strategies[4].name
  /\ Len(ret.riskRewardAnalysis[4].distributions) = 4

\* ---------------------------------------------------------------- C16

\* Some pattern of rule r matches the text.
Fires(r, text) ==
  \E j \in 1..Len(BIAS_RULES[r].patterns) :
    RegExpTest(BiasRegExp(BIAS_RULES[r].patterns[j]), text, 0).found

\* The rules that detect a bias in the text: those that fire, but for a rule
\* whose type an earlier rule has detected.
TextDetecting(text) ==
  {r \in 1..Len(BIAS_RULES) :
     /\ Fires(r, text)
     /\ \A q \in 1..(r - 1) : BIAS_RULES[q].type = BIAS_RULES[r].type => ~Fires(q, text)}

\* The members of a set of numbers, from the least to the greatest.
RECURSIVE Ascending(_)
Ascending(S) == IF S = {} THEN <<>> ELSE <<Min(S)>> \o Ascending(S \ {Min(S)})

\* The category label of an emotional element: the part before the separator.
LabelOf(element) ==
  LET at == {i \in 0..(Length(element) - Length(ELEMENT_OPEN)) :
               StartsWith(element, ELEMENT_OPEN, i)}
  IN IF at = {} THEN element ELSE Slice(element, 0, Min(at))

\* The places in emotionalElements of the element an inferred bias quotes.
ArrivalsOf(bias, emotionalElements) ==
  {e \in 1..Len(emotionalElements) :
     bias.description = INFERRED_PREFIX \o emotionalElements[e]}

TextFirstThenInferred(reframedProblem, biases) ==
  LET rules == Ascending(TextDetecting(reframedProblem.original))
      elements == reframedProblem.emotionalElements
      n == Len(rules)
      rest == SubSeq(biases, n + 1, Len(biases))
      arrival(j) == Min(ArrivalsOf(rest[j], elements))
  IN IF biases = <<OTHER_BIAS>> THEN n = 0
     ELSE /\ Len(biases) >= n
          /\ \A i \in 1..n :
               biases[i] = [type |-> BIAS_RULES[rules[i]].type,
                            typeLabel |-> BIAS_RULES[rules[i]].typeLabel,
                            description |-> BIAS_RULES[rules[i]].description,
                            mitigation |-> BIAS_RULES[rules[i]].mitigation]
          /\ \A j \in 1..Len(rest) :
               /\ \A i \in 1..n : biases[i].type # rest[j].type
               /\ ArrivalsOf(rest[j], elements) # {}
               /\ \A h \in 1..(j - 1) :
                    rest[h].type # rest[j].type /\ arrival(h) <= arrival(j)
          /\ \A e \in 1..Len(elements), k \in 1..Len(EMOTIONAL_BIAS_MAP) :
               StringIncludes(LabelOf(elements[e]), EMOTIONAL_BIAS_MAP[k].keyword)
                 => \E b \in 1..Len(biases) :
                      biases[b].type = EMOTIONAL_BIAS_MAP[k].biasType

\* C16: the biases analyzeBias returns are first the biases detected in the
\* text, in the order of BIAS_RULES and each with the description of its rule,
\* then the biases inferred from the emotional elements whose type the text did
\* not detect, each type once and in the order in which their elements arrive;
\* a type both detected and inferred has the detected entry only.
C16_TextFirstThenInferred ==
  /\ Returned("analyzeBias") => TextFirstThenInferred(call.reframedProblem, ret.biases)
  /\ Returned("analyzeDecision") =>
       TextFirstThenInferred(ret.reframedProblem, ret.biasWarnings.biases)

\* analyzeBias has returned for a text with group pressure and two elements, the
\* first of urgency, the second of a preset conclusion: group pressure with the
\* description of its rule, then short-term focus quoting the first element, then
\* confirmation bias quoting the second.
C16_Witness ==
  /\ Returned("analyzeBias")
  /\ call.reframedProblem.original = TEXT_EVERYONE
  /\ call.reframedProblem.emotionalElements = <<ELEMENT_URGENCY, ELEMENT_PRESET>>
  /\ TypesOf(ret.biases) = <<"groupPressure", "shortTermFocus", "confirmationBias">>
  /\ ~StartsWith(ret.biases[1].description, INFERRED_PREFIX, 0)
  /\ ret.biases[2].description = INFERRED_PREFIX \o ELEMENT_URGENCY
  /\ ret.biases[3].description = INFERRED_PREFIX \o ELEMENT_PRESET

\* ---------------------------------------------------------------- C17

\* Every bias inferred from the emotional elements (its description quotes an
\* element) has a type that a marker in the category label of some element is
\* mapped to.
InferredFromLabels(reframedProblem, biases) ==
  \A b \in 1..Len(biases) :
    StartsWith(biases[b].description, INFERRED_PREFIX, 0) =>
      \E e \in 1..Len(reframedProblem.emotionalElements),
         k \in 1..Len(EMOTIONAL_BIAS_MAP) :
        /\ EMOTIONAL_BIAS_MAP[k].biasType = biases[b].type
        /\ StringIncludes(LabelOf(reframedProblem.emotionalElements[e]),
                          EMOTIONAL_BIAS_MAP[k].keyword)

\* C17: a bias of type T is inferred from the emotional elements only when the
\* category label of some element, the part before the separator, contains a
\* marker mapped to T; the matched substrings quoted after the label cause no
\* inference - in a direct call of analyzeBias and in the pipeline.
C17_InferredFromLabelsOnly ==
  /\ Returned("analyzeBias") => InferredFromLabels(call.reframedProblem, ret.biases)
  /\ Returned("analyzeDecision") =>
       InferredFromLabels(ret.reframedProblem, ret.biasWarnings.biases)

\* ---------------------------------------------------------------- C18

\* Variables that keep two facts of variables and nothing else: whether
\* keyVariables has CAPITAL_RESERVE, whether uncertainties has POLICY_CHANGE.
TwoFacts(capital, policy) ==
  [goals |-> <<>>,
   keyVariables |-> IF capital THEN <<CAPITAL_RESERVE>> ELSE <<>>,
   hardConstraints |-> <<>>,
   uncertainties |-> IF policy THEN <<POLICY_CHANGE>> ELSE <<>>]

NoProblem == [original |-> "", reframed |-> "", emotionalElements |-> <<>>]

OnlyTwoFacts(variables, strategySpace) ==
  LET capital == ArrayIncludes(variables.keyVariables, CAPITAL_RESERVE)
      policy == ArrayIncludes(variables.uncertainties, POLICY_CHANGE)
      neither == generateStrategies(NoProblem, TwoFacts(FALSE, FALSE)).strategies
      strategies == strategySpace.strategies
  IN /\ strategySpace = generateStrategies(NoProblem, TwoFacts(capital, policy))
     /\ Len(strategies) = Len(neither)
     /\ \A s \in 1..Len(strategies) :
          /\ strategies[s].type = "aggressive" =>
               Len(strategies[s].preconditions) = IF capital THEN 4 ELSE 3
          /\ strategies[s].type = "conservative" =>
               Len(strategies[s].triggerPoints) = IF policy THEN 4 ELSE 3
          /\ strategies[s].type # "aggressive" =>
               strategies[s].preconditions = neither[s].preconditions
          /\ strategies[s].type # "conservative" =>
               strategies[s].triggerPoints = neither[s].triggerPoints
          /\ strategies[s].id = neither[s].id
          /\ strategies[s].name = neither[s].name
          /\ strategies[s].type = neither[s].type
          /\ strategies[s].typeLabel = neither[s].typeLabel
          /\ strategies[s].executionCost = neither[s].executionCost
          /\ strategies[s].worstCase = neither[s].worstCase

\* C18: what generateStrategies returns is fixed by two facts: whether
\* keyVariables has 资金储备 (the aggressive strategy then has 4 preconditions,
\* else 3) and whether uncertainties has 政策变化 (the conservative strategy then
\* has 4 trigger points, else 3). Every other field of every strategy is the
\* same for all inputs; the reframed problem, the goals and the hard
\* constraints change nothing - in a direct call and in the pipeline.
C18_OnlyTwoFacts ==
  /\ Returned("generateStrategies") => OnlyTwoFacts(call.variables, ret)
  /\ Returned("analyzeDecision") =>
       OnlyTwoFacts(ret.variablesAndConstraints, ret.strategySpace)

\* generateStrategies has returned for the reframed Scenario-1 problem, no goal,
\* key variables with 资金储备 in the second place and uncertainties without
\* 政策变化: the aggressive strategy has 4 preconditions, the conservative one 3
\* trigger points.
C18_Witness ==
  /\ Returned("generateStrategies")
  /\ call.reframedProblem.original = Scenario1
  /\ call.variables.goals = <<>>
  /\ Len(call.variables.keyVariables) = 2
  /\ call.variables.keyVariables[2] = CAPITAL_RESERVE
  /\ call.variables.keyVariables[1] # CAPITAL_RESERVE
  /\ ~ArrayIncludes(call.variables.uncertainties, POLICY_CHANGE)
  /\ Len(call.variables.uncertainties) > 0
  /\ \E s \in 1..Len(ret.strategies) :
       ret.strategies[s].type = "aggressive" /\ Len(ret.strategies[s].preconditions) = 4
  /\ \E s \in 1..Len(ret.strategies) :
       ret.strategies[s].type = "conservative" /\ Len(ret.strategies[s].triggerPoints) = 3
====
